---- MODULE Spec2Model ----
(***************************************************************************)
(* A model of pd-graphiti-service: the knowledge-graph client's batch      *)
(* submission (graphiti_client.py, add_episodes_batch), the file monitor   *)
(* (file_monitor.py), the ingestion service (ingestion_service.py), and    *)
(* the background task manager, the application lifespan (main.py) and the *)
(* cleanup endpoint (api/endpoints.py).                                    *)
(*                                                                         *)
(* Delays are held as integers in units of one microsecond, so that the    *)
(* factors 1.5 and 0.8 of the adaptive delay are exact over the batches    *)
(* explored here.  An error text is a sequence of words; the rate-limit    *)
(* test looks for an indicator among the lower-cased words.  Clock         *)
(* readings are counted in ticks of 1/TicksPerHour hour.                   *)
(***************************************************************************)
EXTENDS Integers, Sequences, FiniteSets, Bags, TLC

VARIABLES
    \* ---- GraphitiClient.add_episodes_batch (one call in progress) ----
    b_pc,                \* position of the coroutine
    episodes,            \* the input list
    sorted_episodes,     \* sorted(episodes, key=get_episode_priority)
    i,                   \* loop index (0-based, as in the source)
    results,             \* episode_results collected so far
    successful,
    failed,
    current_delay,
    rate_limit_count,
    episode_delay,
    adaptive_delays,
    min_episode_delay,
    max_episode_delay,
    batch_result,        \* the dict the call returned
    submitted,           \* episodes handed to the engine, in call order
    inflight,            \* engine submissions that have not returned yet
    sleeps,              \* durations passed to asyncio.sleep, in call order
    graphiti,            \* self._graphiti is not None: the engine instance exists
    \* ---- FileMonitor ----
    status,              \* self._status
    observer,            \* self._observer: "none", "created" (not started), "started"
    handler,             \* self._handler is not None
    processing_queue,    \* self._processing_queue: (export_path, export_id) items
    processed_exports,   \* self._processed_exports
    processing_results,  \* self._processing_results
    tasks,               \* the worker tasks that exist (a bag); listed = in self._processor_tasks
    pending_exports,     \* the paths a _process_new_export_async coroutine sleeps on
    dir_valid,           \* filesystem: the directory is a valid export directory
    dir_mtime,           \* filesystem: int(st_mtime) of the directory
    m_pc,                \* position of the lifecycle call in progress
    m_call,              \* the lifecycle operation called last
    m_result,            \* "status" of the dict the last lifecycle call returned
    \* ---- IngestionService ----
    processed_episodes,  \* self._processed_episodes
    export_dir,          \* filesystem: the manifest and the episode files of the export
    d_pc,                \* position of process_export_directory
    d_args,              \* its arguments force_reingest and episode_types_filter
    d_episodes,          \* its local list episodes
    d_load_errors,       \* its local list load_errors
    d_files,             \* its local list episode_files
    d_log,               \* the directory runs that returned and the history clears
    s_pc,                \* position of process_single_episode
    s_args,              \* its arguments episode and force_reingest
    s_result,            \* the dict the last process_single_episode call returned
    s_client,            \* what the add_episode call of that run did, if it was made
    \* ---- BackgroundTaskManager, lifespan, DELETE /operations/cleanup ----
    now,                 \* the clock read by datetime.now(), in ticks
    bg_tasks,            \* task_manager.tasks: task id -> entry
    create_result,       \* how the last create_task call ended
    cleanup_result,      \* how the last cleanup_completed_tasks call ended
    response,            \* the status code of the last cleanup_operations response
    current_operations,  \* _current_operations of the endpoints: operation id -> operation
    services,            \* the keys of _services
    l_pc,                \* position of lifespan
    l_aborted,           \* the startup raised
    l_attempts,          \* the shutdown steps attempted, in order
    \* ---- lifespan startup, GraphitiClient.initialize_database, HTTP handlers ----
    settings,            \* lifespan's local settings, once loaded
    validation_results,  \* what validate_configuration returned
    l_startup,           \* the guarded startup steps attempted, in order
    database_initialized,\* GraphitiClient._database_initialized
    init_tries,          \* what each attempt of the initialize_database call met
    init_outcome,        \* how the initialize_database call ended
    http,                \* the last HTTP response
    \* ---- IngestionService._load_manifest, GraphitiClient._validate_episode ----
    manifest_call,       \* the last _load_manifest call: the file and what came of it
    validate_call,       \* the last _validate_episode call: the episode and what came of it
    \* ---- one _export_processor_worker coroutine, statement by statement ----
    w_pc,                \* position of the coroutine
    w_events,            \* what it did for the export it took last, in order
    w_call,              \* its last call of process_export_directory
    w_callbacks,         \* the callbacks registered by set_callbacks
    \* ---- the background_directory_ingestion coroutines of the task manager ----
    bg_coroutines        \* task id -> the request the coroutine holds and what it returned

batch_vars == <<b_pc, episodes, sorted_episodes, i, results, successful, failed,
                current_delay, rate_limit_count, episode_delay, adaptive_delays,
                min_episode_delay, max_episode_delay, batch_result, submitted,
                inflight, sleeps, graphiti>>

monitor_vars == <<status, observer, handler, processing_queue, processed_exports,
                  processing_results, tasks, pending_exports, dir_valid, dir_mtime,
                  m_pc, m_call, m_result>>

ingest_vars == <<processed_episodes, export_dir, d_pc, d_args, d_episodes,
                 d_load_errors, d_files, d_log, s_pc, s_args, s_result, s_client>>

service_vars == <<now, bg_tasks, create_result, cleanup_result, response,
                  current_operations, services, l_pc, l_aborted, l_attempts>>

api_vars == <<settings, validation_results, l_startup, database_initialized,
              init_tries, init_outcome, http>>

call_vars == <<manifest_call, validate_call>>

worker_vars == <<w_pc, w_events, w_call, w_callbacks>>

coroutine_vars == <<bg_coroutines>>

vars == <<batch_vars, monitor_vars, ingest_vars, service_vars, api_vars, call_vars,
          worker_vars, coroutine_vars>>

-----------------------------------------------------------------------------
(* Bounds of the exploration *)

MaxOrderLen == 3     \* longest episode list of the ordering specification
MaxBatchLen == 5     \* longest episode list of the delay specification
MaxQueue == 2        \* longest processing queue
MaxMtime == 1        \* latest modification time of a directory
MaxTasks == 3        \* worker tasks alive at once
MaxResults == 2      \* exports handled between two clears
MaxFiles == 2        \* most episode files of an export directory
MaxLog == 2          \* directory runs and history clears that are kept track of
MaxNow == 3          \* ticks the clock advances
TicksPerHour == 1    \* resolution of the clock
MaxWarnings == 1     \* most warnings of a validation
MaxNameLen == 2      \* longest episode name, in characters

-----------------------------------------------------------------------------
(* Numbers *)

Unit == 1000 * 1000                 \* one second

Max(a, b) == IF a >= b THEN a ELSE b
Min(a, b) == IF a <= b THEN a ELSE b

\* current_delay * 1.5 and current_delay * 0.8
TimesOnePointFive(d) == (d * 3) \div 2
TimesPointEight(d) == (d * 4) \div 5

\* the defaults of add_episodes_batch, in microseconds
DefaultEpisodeDelay == 2500000
DefaultMinEpisodeDelay == 1000000
DefaultMaxEpisodeDelay == 10000000

-----------------------------------------------------------------------------
(* Episodes *)

IngestionStatus == {"pending", "processing", "success", "failed"}

episode_order == <<"gene_profile", "gwas_evidence", "eqtl_evidence",
                   "literature_evidence", "pathway_evidence", "integration">>

KnownTypes == {episode_order[k] : k \in 1..Len(episode_order)}
EpisodeTypes == KnownTypes \cup {"custom_note"}

EpisodeNames == <<"ep1", "ep2", "ep3", "ep4", "ep5", "ep6", "ep7", "ep8">>

\* list.index(x): the 0-based position of the first occurrence
IndexOf(seq, x) ==
    (CHOOSE k \in 1..Len(seq) : seq[k] = x /\ \A j \in 1..(k - 1) : seq[j] # x) - 1

get_episode_priority_unknown_first(episode) ==
    IF episode.episode_type \in KnownTypes
    THEN IndexOf(episode_order, episode.episode_type) + 1
    ELSE 0

\* GraphitiClient.add_episodes_batch.get_episode_priority
get_episode_priority(episode) ==
    IF episode.episode_type \in KnownTypes
    THEN IndexOf(episode_order, episode.episode_type)
    ELSE Len(episode_order)

\* IngestionService._get_episode_processing_order.get_priority
get_priority(episode) ==
    IF episode.episode_type \in KnownTypes
    THEN IndexOf(episode_order, episode.episode_type)
    ELSE Len(episode_order)

\* One step of a stable sort over <<key, element>> pairs: p goes after every
\* pair whose key is <= its key.
InsertByKey(seq, p) ==
    LET n == Cardinality({k \in 1..Len(seq) : seq[k][1] <= p[1]})
    IN  SubSeq(seq, 1, n) \o <<p>> \o SubSeq(seq, n + 1, Len(seq))

RECURSIVE SortPairs(_)
SortPairs(seq) ==
    IF seq = <<>> THEN <<>>
    ELSE InsertByKey(SortPairs(SubSeq(seq, 1, Len(seq) - 1)), seq[Len(seq)])

\* sorted(episodes, key=get_episode_priority): Python's sort is stable
sorted_by_client(eps) ==
    LET s == SortPairs([k \in 1..Len(eps) |-> <<get_episode_priority(eps[k]), eps[k]>>])
    IN  [k \in 1..Len(eps) |-> s[k][2]]

\* IngestionService._get_episode_processing_order
_get_episode_processing_order(eps) ==
    LET s == SortPairs([k \in 1..Len(eps) |-> <<get_priority(eps[k]), eps[k]>>])
    IN  [k \in 1..Len(eps) |-> s[k][2]]

\* GraphitiClient._validate_episode, on the outcome recorded in the episode
_validate_episode(episode) == episode.valid

-----------------------------------------------------------------------------
(* Error texts *)

Lower(w) ==
    CASE w = "Rate" -> "rate"
      [] w = "QUOTA" -> "quota"
      [] w = "Limit" -> "limit"
      [] OTHER -> w

RateLimitIndicators == {"rate", "limit", "quota", "429"}

\* any(indicator in text.lower() for indicator in ["rate", "limit", "quota", "429"])
IsRateLimitText(text) ==
    \E k \in 1..Len(text) : Lower(text[k]) \in RateLimitIndicators

EngineRateLimitText == <<"Rate", "limit", "reached">>
EngineOtherText == <<"connection", "reset">>
ValidationText == <<"Episode", "validation", "failed">>
CallbackQuotaText == <<"QUOTA", "exceeded">>

UnboundLocalText == <<"cannot", "access", "local", "variable", "datetime">>

\* add_episode's error_message: "Episode {name} processing timeout after {t}s"
TimeoutErrorMessage(name) == <<"Episode", name, "processing", "timeout">>

\* add_episode's error_message: "Failed to ingest episode {name}: {e}"
IngestErrorMessage(name, text) == <<"Failed", "to", "ingest", "episode", name>> \o text

-----------------------------------------------------------------------------
(* add_episodes_batch: the adaptive delay *)

DelayAfterSuccess_always_reduce(cd, rlc, ad, mn) ==
    IF ad THEN Max(mn, TimesPointEight(cd)) ELSE cd

\* on a success: current_delay = max(min_episode_delay, current_delay * 0.8)
\* when the counter is nonzero and adaptive delays are on
DelayAfterSuccess(cd, rlc, ad, mn) ==
    IF rlc > 0 /\ ad THEN Max(mn, TimesPointEight(cd)) ELSE cd

CountAfterSuccess_keep(rlc) == rlc

\* on a success: rate_limit_count = 0 when it was nonzero
CountAfterSuccess(rlc) == IF rlc > 0 THEN 0 ELSE rlc

DelayAfterError_unclamped(cd, text, ad, mx) ==
    IF IsRateLimitText(text) /\ ad /\ cd < mx THEN TimesOnePointFive(cd) ELSE cd

\* on a failed result or an exception: current_delay = min(max_episode_delay,
\* current_delay * 1.5) when the text is rate-limited, adaptive delays are on
\* and the delay is below the maximum
DelayAfterError(cd, text, ad, mx) ==
    IF IsRateLimitText(text) /\ ad /\ cd < mx
    THEN Min(mx, TimesOnePointFive(cd))
    ELSE cd

\* on a failed result or an exception: rate_limit_count += 1 when rate-limited
CountAfterError(rlc, text) == IF IsRateLimitText(text) THEN rlc + 1 ELSE rlc

\* delay_to_use = max(min_episode_delay, min(current_delay, max_episode_delay))
DelayToUse(cd, mn, mx) == Max(mn, Min(cd, mx))

\* the dict add_episodes_batch returns
BatchResult(res, succ, fl, cd, rlc) ==
    [status |-> IF fl = 0 THEN "success" ELSE "failed",
     total_episodes |-> Len(episodes),
     successful |-> succ,
     failed |-> fl,
     episode_results |-> res,
     rate_limiting_stats |->
        [initial_delay |-> episode_delay,
         final_delay |-> cd,
         adaptive_delays_enabled |-> adaptive_delays,
         rate_limit_events |-> rlc,
         total_delay_time |->
            IF Len(sorted_episodes) > 1 THEN (Len(sorted_episodes) - 1) * cd ELSE 0]]

NoResult == [status |-> "none"]

-----------------------------------------------------------------------------
(* add_episodes_batch: the coroutine *)

BatchInit ==
    /\ b_pc = "idle"
    /\ episodes = <<>>
    /\ sorted_episodes = <<>>
    /\ i = 0
    /\ results = <<>>
    /\ successful = 0
    /\ failed = 0
    /\ current_delay = DefaultEpisodeDelay
    /\ rate_limit_count = 0
    /\ episode_delay = DefaultEpisodeDelay
    /\ adaptive_delays = TRUE
    /\ min_episode_delay = DefaultMinEpisodeDelay
    /\ max_episode_delay = DefaultMaxEpisodeDelay
    /\ batch_result = NoResult
    /\ submitted = <<>>
    /\ inflight = 0
    /\ sleeps = <<>>
    /\ graphiti = FALSE

\* The call, up to the first episode: the sort and the rate-limit variables.
\* An empty list falls through the loop to the return.
BeginBatch(eps, ed, ad, mn, mx) ==
    /\ b_pc = "idle"
    /\ episodes' = eps
    /\ sorted_episodes' = sorted_by_client(eps)
    /\ episode_delay' = ed
    /\ adaptive_delays' = ad
    /\ min_episode_delay' = mn
    /\ max_episode_delay' = mx
    /\ results' = <<>>
    /\ successful' = 0
    /\ failed' = 0
    /\ current_delay' = ed
    /\ rate_limit_count' = 0
    /\ i' = 0
    /\ submitted' = <<>>
    /\ sleeps' = <<>>
    /\ inflight' = 0
    /\ UNCHANGED graphiti
    /\ IF eps = <<>>
       THEN /\ b_pc' = "returned"
            /\ batch_result' = BatchResult(<<>>, 0, 0, ed, 0)'
       ELSE /\ b_pc' = "iterate"
            /\ batch_result' = NoResult

\* The end of one loop iteration: the sleep between episodes, or the return
\* after the last one.
EndIteration(res, succ, fl, cd, rlc) ==
    /\ results' = res
    /\ successful' = succ
    /\ failed' = fl
    /\ current_delay' = cd
    /\ rate_limit_count' = rlc
    /\ IF i < Len(sorted_episodes) - 1
       THEN /\ sleeps' = Append(sleeps,
                                DelayToUse(cd, min_episode_delay, max_episode_delay))
            /\ b_pc' = "sleeping"
            /\ batch_result' = batch_result
       ELSE /\ sleeps' = sleeps
            /\ b_pc' = "returned"
            /\ batch_result' = BatchResult(res, succ, fl, cd, rlc)
    /\ UNCHANGED <<episodes, sorted_episodes, i, episode_delay, adaptive_delays,
                   min_episode_delay, max_episode_delay>>

OnException_uncounted(episode, text) ==
    EndIteration(
        Append(results, [status |-> "failed",
                         episode_name |-> episode.episode_name,
                         error_message |-> text]),
        successful,
        failed,
        DelayAfterError(current_delay, text, adaptive_delays, max_episode_delay),
        CountAfterError(rate_limit_count, text))

\* the except branch of the loop body
OnException(episode, text) ==
    EndIteration(
        Append(results, [status |-> "failed",
                         episode_name |-> episode.episode_name,
                         error_message |-> text]),
        successful,
        failed + 1,
        DelayAfterError(current_delay, text, adaptive_delays, max_episode_delay),
        CountAfterError(rate_limit_count, text))

\* the handling of the dict add_episode returned
OnResult(result) ==
    IF result.status = "success"
    THEN EndIteration(
            Append(results, result),
            successful + 1,
            failed,
            DelayAfterSuccess(current_delay, rate_limit_count, adaptive_delays,
                              min_episode_delay),
            CountAfterSuccess(rate_limit_count))
    ELSE EndIteration(
            Append(results, result),
            successful,
            failed + 1,
            DelayAfterError(current_delay, result.error_message, adaptive_delays,
                            max_episode_delay),
            CountAfterError(rate_limit_count, result.error_message))

\* The loop body up to the await of the engine: add_episode validates the
\* episode and raises GraphitiValidationError, or gets the engine instance
\* and hands the episode to it.
SubmitEpisode ==
    /\ b_pc = "iterate"
    /\ LET episode == sorted_episodes[i + 1]
       IN  IF _validate_episode(episode)
           THEN /\ submitted' = Append(submitted, episode)
                /\ inflight' = inflight + 1
                /\ b_pc' = "awaiting"
                /\ graphiti' = TRUE
                /\ UNCHANGED <<episodes, sorted_episodes, i, results, successful,
                               failed, current_delay, rate_limit_count,
                               episode_delay, adaptive_delays, min_episode_delay,
                               max_episode_delay, batch_result, sleeps>>
           ELSE /\ OnException(episode, ValidationText)
                /\ UNCHANGED <<submitted, inflight, graphiti>>

\* The loop body when _get_graphiti raises while it creates the instance:
\* add_episode's handler reads its local name datetime, which the import
\* further down the try block has not bound yet, and the UnboundLocalError
\* leaves add_episode.
GetGraphitiRaises ==
    /\ b_pc = "iterate"
    /\ ~graphiti
    /\ _validate_episode(sorted_episodes[i + 1])
    /\ OnException(sorted_episodes[i + 1], UnboundLocalText)
    /\ UNCHANGED <<submitted, inflight, graphiti>>

\* progress_callback raises before add_episode is called
ProgressCallbackRaises ==
    /\ b_pc = "iterate"
    /\ OnException(sorted_episodes[i + 1], CallbackQuotaText)
    /\ UNCHANGED <<submitted, inflight, graphiti>>

\* what the engine does with a submission: it succeeds, or it fails (or times
\* out) with a text
EngineSuccess == [ok |-> TRUE, timeout |-> FALSE, text |-> <<>>]
EngineFailure(text) == [ok |-> FALSE, timeout |-> FALSE, text |-> text]
EngineTimeout == [ok |-> FALSE, timeout |-> TRUE, text |-> <<>>]

\* add_episode returns: a success dict, or a failed dict carrying the text
AddEpisodeResult(episode, outcome) ==
    IF outcome.ok
    THEN [status |-> "success",
          episode_name |-> episode.episode_name,
          error_message |-> <<>>]
    ELSE [status |-> "failed",
          episode_name |-> episode.episode_name,
          error_message |-> IF outcome.timeout
                            THEN TimeoutErrorMessage(episode.episode_name)
                            ELSE IngestErrorMessage(episode.episode_name, outcome.text)]

\* The engine returns and the loop body handles the result.
EngineReturns(outcome) ==
    /\ b_pc = "awaiting"
    /\ inflight' = inflight - 1
    /\ OnResult(AddEpisodeResult(sorted_episodes[i + 1], outcome))
    /\ UNCHANGED <<submitted, graphiti>>

\* asyncio.sleep(delay_to_use) returns: the next iteration
SleepReturns ==
    /\ b_pc = "sleeping"
    /\ i' = i + 1
    /\ b_pc' = "iterate"
    /\ UNCHANGED <<episodes, sorted_episodes, results, successful, failed,
                   current_delay, rate_limit_count, episode_delay, adaptive_delays,
                   min_episode_delay, max_episode_delay, batch_result, submitted,
                   inflight, sleeps, graphiti>>

-----------------------------------------------------------------------------
(* FileMonitor: state *)

MonitoringStatus == {"stopped", "starting", "running", "paused", "error"}

ExportDirs == {"export_a"}

\* self._concurrent_processors
ConcurrentProcessors == 2

\* the cap on self._processing_results
ResultHistoryCap == 100

\* _get_export_id: "{path.name}_{int(st_mtime)}"
_get_export_id(path) == <<path, dir_mtime[path]>>

\* _is_valid_export_directory
_is_valid_export_directory(path) == dir_valid[path]

ExportIds == ExportDirs \X (0..MaxMtime)

NoItem == [export_path |-> "none", export_id |-> <<"none", 0>>]

QueueItem(path) == [export_path |-> path, export_id |-> _get_export_id(path)]

\* a task created by asyncio.create_task(self._export_processor_worker(i))
NewWorker ==
    [st |-> "new", item |-> NoItem, cancel |-> FALSE, listed |-> TRUE]

Alive(t) == t.st # "done"

\* the tasks self._processor_tasks holds
processor_tasks == {t \in BagToSet(tasks) : t.listed}

AliveTasks == {t \in BagToSet(tasks) : Alive(t)}

\* how many tasks of bag B are in S
CountOf(B, S) ==
    LET RECURSIVE Sum(_)
        Sum(T) == IF T = {} THEN 0
                  ELSE LET x == CHOOSE y \in T : TRUE
                       IN  CopiesIn(x, B) + Sum(T \ {x})
    IN  Sum(S \cap BagToSet(B))

\* a finished task that self._processor_tasks no longer holds is gone
Collect(B) ==
    LET keep == {t \in BagToSet(B) : t.listed \/ Alive(t)}
    IN  [t \in keep |-> B[t]]

\* task t of the bag becomes u
Becomes(B, t, u) == Collect((B (-) SetToBag({t})) (+) SetToBag({u}))

\* self._processor_tasks.clear(), or its replacement by a new list
Unlisted(B) ==
    LET Unlist(t) == [t EXCEPT !.listed = FALSE]
        Relist(t) == [t EXCEPT !.listed = TRUE]
        out == {Unlist(t) : t \in BagToSet(B)}
    IN  Collect([u \in out |-> CopiesIn(u, B) + CopiesIn(Relist(u), B)])

\* task.cancel() on every task of self._processor_tasks
Cancelled(B) ==
    LET Hit(t) == t.listed /\ Alive(t)
        Cancel(t) == IF Hit(t) THEN [t EXCEPT !.cancel = TRUE] ELSE t
        Uncancel(t) == [t EXCEPT !.cancel = FALSE]
        out == {Cancel(t) : t \in BagToSet(B)}
    IN  [u \in out |->
            IF Hit(u) /\ u.cancel
            THEN CopiesIn(u, B) + CopiesIn(Uncancel(u), B)
            ELSE CopiesIn(u, B)]

KeepLast_first(seq, n) == IF Len(seq) > n THEN SubSeq(seq, 1, n) ELSE seq

\* self._processing_results[-100:]
KeepLast(seq, n) ==
    IF Len(seq) > n THEN SubSeq(seq, Len(seq) - n + 1, Len(seq)) ELSE seq

MonitorInit ==
    /\ status = "stopped"
    /\ observer = "none"
    /\ handler = FALSE
    /\ processing_queue = <<>>
    /\ processed_exports = {}
    /\ processing_results = <<>>
    /\ tasks = EmptyBag
    /\ pending_exports = {}
    /\ dir_valid = [d \in ExportDirs |-> FALSE]
    /\ dir_mtime = [d \in ExportDirs |-> 0]
    /\ m_pc = "none"
    /\ m_call = "none"
    /\ m_result = "none"

-----------------------------------------------------------------------------
(* IngestionService: state *)

\* manifest.export_id of the export
ManifestExportId == "export_a"

\* an export directory: manifest.json is there and parses ("ok"), is missing
\* or does not parse; listing the directory works or raises; each episode
\* file loads or not, and holds an episode that the client finds valid or not
FileTypes == <<"gwas_evidence", "gene_profile", "custom_note", "integration">>

EpisodeFiles(n) ==
    {[k \in 1..n |-> [episode_name |-> EpisodeNames[k],
                      episode_type |-> FileTypes[k],
                      valid |-> v[k],
                      loadable |-> l[k]]] :
        v \in [1..n -> BOOLEAN], l \in [1..n -> BOOLEAN]}

ExportDirectories ==
    {[manifest |-> "ok", listing |-> "ok", files |-> f] :
        f \in UNION {EpisodeFiles(n) : n \in 0..MaxFiles}}
    \cup {[manifest |-> m, listing |-> "ok", files |-> <<>>] : m \in {"missing", "invalid"}}
    \cup {[manifest |-> "ok", listing |-> "raises", files |-> <<>>]}

EmptyExportDirectory == [manifest |-> "ok", listing |-> "ok", files |-> <<>>]

NoArgs == [force_reingest |-> FALSE, episode_types_filter |-> {}]

NoEpisode == [episode_name |-> "none", episode_type |-> "none", valid |-> FALSE]

NoClientCall == [called |-> FALSE]

IngestInit(dir) ==
    /\ processed_episodes = {}
    /\ export_dir = dir
    /\ d_pc = "idle"
    /\ d_args = NoArgs
    /\ d_episodes = <<>>
    /\ d_load_errors = <<>>
    /\ d_files = <<>>
    /\ d_log = <<>>
    /\ s_pc = "idle"
    /\ s_args = [episode |-> NoEpisode, force_reingest |-> FALSE]
    /\ s_result = NoResult
    /\ s_client = NoClientCall

-----------------------------------------------------------------------------
(* BackgroundTaskManager and lifespan: state *)

TaskIds == {"op1", "op2"}

\* the clock starts so many hours before midnight that its last reading is
\* in the first hour of the next day
HoursPerDay == 24
FirstTick == (HoursPerDay - MaxNow) * TicksPerHour
LastTick == FirstTick + MaxNow

ServiceInit ==
    /\ now = FirstTick
    /\ bg_tasks = << >>
    /\ create_result = "none"
    /\ cleanup_result = "none"
    /\ response = 0
    /\ current_operations = << >>
    /\ services = {}
    /\ l_pc = "startup"
    /\ l_aborted = FALSE
    /\ l_attempts = <<>>

\* the state after construction: no batch call made, the monitor as __init__
\* leaves it, an empty export directory, no background task
NoSettings == [loaded |-> FALSE, enable_monitoring |-> FALSE]

NoValidation == [validated |-> FALSE, valid |-> FALSE, warnings |-> 0]

NoResponse == [endpoint |-> "none", code |-> 0, body |-> << >>]

ApiInit ==
    /\ settings = NoSettings
    /\ validation_results = NoValidation
    /\ l_startup = << >>
    /\ database_initialized = FALSE
    /\ init_tries = << >>
    /\ init_outcome = "none"
    /\ http = NoResponse

NoCall == [called |-> FALSE]

CallInit ==
    /\ manifest_call = NoCall
    /\ validate_call = NoCall

\* the callbacks set_callbacks registers
Callbacks == {"started", "completed", "failed"}

\* no worker coroutine is followed statement by statement
WorkerInit ==
    /\ w_pc = "none"
    /\ w_events = << >>
    /\ w_call = NoCall
    /\ w_callbacks = {}

\* no background coroutine has been created
CoroutineInit == bg_coroutines = << >>

Init ==
    /\ BatchInit
    /\ MonitorInit
    /\ IngestInit(EmptyExportDirectory)
    /\ ServiceInit
    /\ ApiInit
    /\ CallInit
    /\ WorkerInit
    /\ CoroutineInit

-----------------------------------------------------------------------------
(* FileMonitor: the filesystem and the watcher *)

\* an export directory is written (or rewritten) by the pipeline
ExportWritten(d) ==
    /\ m_pc # "starting"
    /\ \E t \in {dir_mtime[d], dir_mtime[d] + 1} :
          /\ t <= MaxMtime
          /\ dir_mtime' = [dir_mtime EXCEPT ![d] = t]
    /\ dir_valid' = [dir_valid EXCEPT ![d] = TRUE]
    /\ <<dir_valid, dir_mtime>> # <<dir_valid', dir_mtime'>>
    /\ UNCHANGED <<status, observer, handler, processing_queue, processed_exports,
                   processing_results, tasks, pending_exports, m_pc, m_call,
                   m_result>>

\* ExportDirectoryHandler.on_created: the running watcher reports a new
\* directory, or a manifest.json in it, and schedules _process_new_export_async
\* (one scheduled call per directory is kept at a time)
on_created(d) ==
    /\ m_pc # "starting"
    /\ observer = "started"
    /\ d \notin pending_exports
    /\ pending_exports' = pending_exports \cup {d}
    /\ UNCHANGED <<status, observer, handler, processing_queue, processed_exports,
                   processing_results, tasks, dir_valid, dir_mtime, m_pc, m_call,
                   m_result>>

\* _process_new_export_async after its sleep: validate, look the export id up
\* in the processed set, enqueue
_process_new_export_async(d) ==
    /\ m_pc # "starting"
    /\ d \in pending_exports
    /\ pending_exports' = pending_exports \ {d}
    /\ IF _is_valid_export_directory(d) /\ _get_export_id(d) \notin processed_exports
       THEN /\ Len(processing_queue) < MaxQueue
            /\ processing_queue' = Append(processing_queue, QueueItem(d))
       ELSE processing_queue' = processing_queue
    /\ UNCHANGED <<status, observer, handler, processed_exports, processing_results,
                   tasks, dir_valid, dir_mtime, m_pc, m_call, m_result>>

\* a scan that does not look the export id up
Discoverable_all == {d \in ExportDirs : _is_valid_export_directory(d)}

\* the exports a scan discovers
Discoverable ==
    {d \in ExportDirs :
        _is_valid_export_directory(d) /\ _get_export_id(d) \notin processed_exports}

\* the orders in which iterdir may yield a set of directories
Orderings(S) ==
    {seq \in [1..Cardinality(S) -> S] : \A d \in S : \E k \in DOMAIN seq : seq[k] = d}

\* trigger_directory_scan: every valid directory whose export id is not in the
\* processed set is enqueued
trigger_directory_scan ==
    /\ m_pc # "starting"
    /\ Len(processing_queue) + Cardinality(Discoverable) <= MaxQueue
    /\ \E order \in Orderings(Discoverable) :
          processing_queue' =
              processing_queue \o [k \in DOMAIN order |-> QueueItem(order[k])]
    /\ UNCHANGED <<status, observer, handler, processed_exports, processing_results,
                   tasks, pending_exports, dir_valid, dir_mtime, m_pc, m_call,
                   m_result>>

\* clear_processing_history
clear_processing_history ==
    /\ m_pc # "starting"
    /\ processed_exports' = {}
    /\ processing_results' = <<>>
    /\ UNCHANGED <<status, observer, handler, processing_queue, tasks,
                   pending_exports, dir_valid, dir_mtime, m_pc, m_call, m_result>>

-----------------------------------------------------------------------------
(* FileMonitor: _export_processor_worker *)

\* the loop condition, evaluated when the worker comes back to the loop head
AfterLoopCheck(t) ==
    IF status = "running"
    THEN [t EXCEPT !.st = "waiting", !.item = NoItem]
    ELSE [t EXCEPT !.st = "done", !.item = NoItem]

worker_frame == <<observer, handler, pending_exports, dir_valid, dir_mtime, m_pc,
                  m_call, m_result>>

\* the task runs for the first time: the loop condition, then the wait on the
\* queue
WorkerStarts(t) ==
    /\ m_pc # "starting"
    /\ t.st = "new"
    /\ ~t.cancel
    /\ tasks' = Becomes(tasks, t, AfterLoopCheck(t))
    /\ UNCHANGED <<status, processing_queue, processed_exports, processing_results>>
    /\ UNCHANGED worker_frame

\* the exports whose ProcessingResult is stored or still to come
Handled ==
    Len(processing_results) + CountOf(tasks, {u \in AliveTasks : u.st = "busy"})

\* queue.get() returns: the export id is marked processed and
\* process_export_directory is called
WorkerDequeues(t) ==
    /\ m_pc # "starting"
    /\ t.st = "waiting"
    /\ ~t.cancel
    /\ processing_queue # <<>>
    /\ LET item == Head(processing_queue)
       IN  /\ processing_queue' = Tail(processing_queue)
           /\ processed_exports' = processed_exports \cup {item.export_id}
           /\ tasks' = Becomes(tasks, t, [t EXCEPT !.st = "busy", !.item = item])
    /\ UNCHANGED <<status, processing_results>>
    /\ UNCHANGED worker_frame

\* wait_for times out on an empty queue: back to the loop condition
WorkerTimesOut(t) ==
    /\ m_pc # "starting"
    /\ t.st = "waiting"
    /\ ~t.cancel
    /\ processing_queue = <<>>
    /\ tasks' = Becomes(tasks, t, AfterLoopCheck(t))
    /\ UNCHANGED <<status, processing_queue, processed_exports, processing_results>>
    /\ UNCHANGED worker_frame

\* process_export_directory returns a dict with status success or failed: the
\* ProcessingResult is stored, the history trimmed, and the loop goes round.
\* When the call or a callback raises, the except branch logs and the loop goes
\* round with nothing stored.
WorkerFinishes(t, outcome) ==
    /\ m_pc # "starting"
    /\ t.st = "busy"
    /\ ~t.cancel
    /\ processing_results' =
          IF outcome = "raises"
          THEN processing_results
          ELSE KeepLast(Append(processing_results,
                               [export_path |-> t.item.export_path,
                                status |-> outcome]),
                        ResultHistoryCap)
    /\ tasks' = Becomes(tasks, t, AfterLoopCheck(t))
    /\ UNCHANGED <<status, processing_queue, processed_exports>>
    /\ UNCHANGED worker_frame

\* CancelledError is thrown into the task at its await
WorkerCancelled(t) ==
    /\ m_pc # "starting"
    /\ t.cancel
    /\ Alive(t)
    /\ tasks' = Becomes(tasks, t, [t EXCEPT !.st = "done", !.item = NoItem])
    /\ UNCHANGED <<status, processing_queue, processed_exports, processing_results>>
    /\ UNCHANGED worker_frame

-----------------------------------------------------------------------------
(* FileMonitor: start, stop, pause, resume *)

call_frame == <<processing_queue, processed_exports, processing_results,
                pending_exports, dir_valid, dir_mtime>>

\* a rejected call that lets go of the observer
Rejected_drops_observer(call, result) ==
    /\ m_call' = call
    /\ m_result' = result
    /\ observer' = "none"
    /\ UNCHANGED <<status, handler, tasks, m_pc>>

\* a lifecycle call that returns at its first check
Rejected(call, result) ==
    /\ m_call' = call
    /\ m_result' = result
    /\ UNCHANGED <<status, observer, handler, tasks, m_pc>>

\* the list start_monitoring builds: the tasks of the old list are dropped from
\* it, not cancelled
StartedTasks ==
    Unlisted(tasks) (+) [t \in {NewWorker} |-> ConcurrentProcessors]

\* start_monitoring, up to self._status = STARTING
start_monitoring_enter ==
    /\ m_pc = "none"
    /\ IF status = "running"
       THEN Rejected("start", "already_running")
       ELSE /\ CountOf(tasks, AliveTasks) + ConcurrentProcessors <= MaxTasks
            /\ status' = "starting"
            /\ m_call' = "start"
            /\ m_pc' = "starting"
            /\ UNCHANGED <<observer, handler, tasks, m_result>>
    /\ UNCHANGED call_frame

\* start_monitoring, the rest: it succeeds, or mkdir raises, or Observer()
\* raises, or observer.start() raises
start_monitoring_finish(failure) ==
    /\ m_pc = "starting"
    /\ m_pc' = "none"
    /\ CASE failure = "none" ->
              /\ handler' = TRUE
              /\ observer' = "started"
              /\ tasks' = StartedTasks
              /\ status' = "running"
              /\ m_result' = "started"
         [] failure = "mkdir" ->
              /\ handler' = handler
              /\ observer' = observer
              /\ tasks' = tasks
              /\ status' = "error"
              /\ m_result' = "error"
         [] failure = "observer" ->
              /\ handler' = TRUE
              /\ observer' = observer
              /\ tasks' = tasks
              /\ status' = "error"
              /\ m_result' = "error"
         [] failure = "start" ->
              /\ handler' = TRUE
              /\ observer' = "created"
              /\ tasks' = StartedTasks
              /\ status' = "error"
              /\ m_result' = "error"
    /\ UNCHANGED m_call
    /\ UNCHANGED call_frame

\* stop_monitoring, up to the await of the gather.  observer.join() raises on
\* an observer that was never started, and the except branch returns.
stop_monitoring_enter ==
    /\ m_pc = "none"
    /\ IF status = "stopped"
       THEN Rejected("stop", "already_stopped")
       ELSE /\ status' = "stopped"
            /\ m_call' = "stop"
            /\ IF observer = "created"
               THEN /\ m_result' = "error"
                    /\ UNCHANGED <<observer, handler, tasks, m_pc>>
               ELSE /\ observer' = "none"
                    /\ tasks' = Cancelled(tasks)
                    /\ IF processor_tasks = {}
                       THEN /\ handler' = FALSE
                            /\ m_result' = "stopped"
                            /\ m_pc' = "none"
                       ELSE /\ m_pc' = "stopping"
                            /\ UNCHANGED <<handler, m_result>>
    /\ UNCHANGED call_frame

\* stop_monitoring after the gather: every task of the list has finished
stop_monitoring_finish ==
    /\ m_pc = "stopping"
    /\ \A t \in processor_tasks : ~Alive(t)
    /\ tasks' = Unlisted(tasks)
    /\ handler' = FALSE
    /\ m_result' = "stopped"
    /\ m_pc' = "none"
    /\ UNCHANGED <<status, observer, m_call>>
    /\ UNCHANGED call_frame

\* pause_monitoring
pause_monitoring ==
    /\ m_pc = "none"
    /\ IF status # "running"
       THEN Rejected("pause", "not_running")
       ELSE /\ observer' = "none"
            /\ status' = "paused"
            /\ m_call' = "pause"
            /\ m_result' = "paused"
            /\ UNCHANGED <<handler, tasks, m_pc>>
    /\ UNCHANGED call_frame

\* a resume_monitoring whose except branch sets the status to error
resume_monitoring_error_status(failure) ==
    /\ m_pc = "none"
    /\ IF status # "paused"
       THEN Rejected("resume", "not_paused")
       ELSE /\ handler' = TRUE
            /\ m_call' = "resume"
            /\ observer' = IF failure = "none" THEN "started" ELSE observer
            /\ status' = IF failure = "none" THEN "running" ELSE "error"
            /\ m_result' = IF failure = "none" THEN "resumed" ELSE "error"
            /\ UNCHANGED <<tasks, m_pc>>
    /\ UNCHANGED call_frame

\* resume_monitoring: it succeeds, or Observer() raises, or observer.start()
\* raises
resume_monitoring(failure) ==
    /\ m_pc = "none"
    /\ IF status # "paused"
       THEN Rejected("resume", "not_paused")
       ELSE /\ handler' = TRUE
            /\ m_call' = "resume"
            /\ CASE failure = "none" ->
                      /\ observer' = "started"
                      /\ status' = "running"
                      /\ m_result' = "resumed"
                 [] failure = "observer" ->
                      /\ observer' = observer
                      /\ status' = status
                      /\ m_result' = "error"
                 [] failure = "start" ->
                      /\ observer' = "created"
                      /\ status' = status
                      /\ m_result' = "error"
            /\ UNCHANGED <<tasks, m_pc>>
    /\ UNCHANGED call_frame

-----------------------------------------------------------------------------
(* Specification MonitorSpec: the file monitor under every interleaving of
   lifecycle calls, filesystem events, scans and its workers *)

Failures == {"none", "observer", "start"}
StartFailures == Failures \cup {"mkdir"}

Filesystem == \E d \in ExportDirs : ExportWritten(d)
WatcherEvent == \E d \in ExportDirs : on_created(d)
NewExportHandler == \E d \in ExportDirs : _process_new_export_async(d)
WorkerStart == \E t \in BagToSet(tasks) : WorkerStarts(t)
WorkerDequeue ==
    /\ Handled < MaxResults
    /\ \E t \in BagToSet(tasks) : WorkerDequeues(t)
WorkerTimeout == \E t \in BagToSet(tasks) : WorkerTimesOut(t)
WorkerFinish ==
    \E t \in BagToSet(tasks), r \in {"success", "failed", "raises"} :
        WorkerFinishes(t, r)
WorkerCancel == \E t \in BagToSet(tasks) : WorkerCancelled(t)
StartFinish == \E f \in StartFailures : start_monitoring_finish(f)
Resume == \E f \in Failures : resume_monitoring(f)

MonitorNext ==
    /\ \/ Filesystem
       \/ WatcherEvent
       \/ NewExportHandler
       \/ trigger_directory_scan
       \/ clear_processing_history
       \/ WorkerStart
       \/ WorkerDequeue
       \/ WorkerTimeout
       \/ WorkerFinish
       \/ WorkerCancel
       \/ start_monitoring_enter
       \/ StartFinish
       \/ stop_monitoring_enter
       \/ stop_monitoring_finish
       \/ pause_monitoring
       \/ Resume
    /\ UNCHANGED <<batch_vars, ingest_vars, service_vars, api_vars, call_vars, worker_vars, coroutine_vars>>

MonitorSpec == Init /\ [][MonitorNext]_vars

-----------------------------------------------------------------------------
(* Specification HistorySpec: the running monitor after ResultHistoryCap - 1
   exports, which earlier runs of the workers handled and recorded *)

EarlierExports == ResultHistoryCap - 1

EarlierResults ==
    [k \in 1..EarlierExports |->
        [export_path |-> "earlier_export",
         status |-> IF k % 2 = 1 THEN "success" ELSE "failed"]]

EarlierExportIds == {<<"earlier_export", k>> : k \in 1..EarlierExports}

HistoryMonitorInit ==
    /\ status = "running"
    /\ observer = "started"
    /\ handler = TRUE
    /\ processing_queue = <<>>
    /\ processed_exports = EarlierExportIds
    /\ processing_results = EarlierResults
    /\ tasks = [t \in {[NewWorker EXCEPT !.st = "waiting"]} |-> ConcurrentProcessors]
    /\ pending_exports = {}
    /\ dir_valid = [d \in ExportDirs |-> FALSE]
    /\ dir_mtime = [d \in ExportDirs |-> 0]
    /\ m_pc = "none"
    /\ m_call = "start"
    /\ m_result = "started"

HistoryInit ==
    /\ BatchInit
    /\ HistoryMonitorInit
    /\ IngestInit(EmptyExportDirectory)
    /\ ServiceInit
    /\ ApiInit
    /\ CallInit
    /\ WorkerInit
    /\ CoroutineInit

HistoryWorkerDequeue ==
    /\ Handled < ResultHistoryCap + MaxResults
    /\ \E t \in BagToSet(tasks) : WorkerDequeues(t)

HistoryNext ==
    /\ \/ Filesystem
       \/ WatcherEvent
       \/ NewExportHandler
       \/ trigger_directory_scan
       \/ clear_processing_history
       \/ HistoryWorkerDequeue
       \/ WorkerTimeout
       \/ WorkerFinish
    /\ UNCHANGED <<batch_vars, ingest_vars, service_vars, api_vars, call_vars, worker_vars, coroutine_vars>>

HistorySpec == HistoryInit /\ [][HistoryNext]_vars

-----------------------------------------------------------------------------
(* Specification MonitorFairSpec: the file monitor between two clears of its
   history, with the event loop running every coroutine that is ready.  The
   lifecycle calls, the pipeline's writes, the watcher's events and the scans
   come from outside and may stop at any time. *)

WorkerDequeueReady == \E t \in BagToSet(tasks) : WorkerDequeues(t)

MonitorFairNext ==
    /\ \/ Filesystem
       \/ WatcherEvent
       \/ NewExportHandler
       \/ trigger_directory_scan
       \/ WorkerStart
       \/ WorkerDequeueReady
       \/ WorkerTimeout
       \/ WorkerFinish
       \/ WorkerCancel
       \/ start_monitoring_enter
       \/ StartFinish
       \/ stop_monitoring_enter
       \/ stop_monitoring_finish
       \/ pause_monitoring
       \/ Resume
    /\ UNCHANGED <<batch_vars, ingest_vars, service_vars, api_vars, call_vars, worker_vars, coroutine_vars>>

\* a coroutine that can run is run: the workers (their first run, the return of
\* queue.get(), its timeout, the return of process_export_directory, the
\* CancelledError), _process_new_export_async after its sleep, and the rest of
\* start_monitoring and of stop_monitoring.  These steps change the monitor's
\* variables only.
EventLoopFairness ==
    /\ WF_monitor_vars(WorkerStart)
    /\ WF_monitor_vars(WorkerDequeueReady)
    /\ WF_monitor_vars(WorkerTimeout)
    /\ WF_monitor_vars(WorkerFinish)
    /\ WF_monitor_vars(WorkerCancel)
    /\ WF_monitor_vars(NewExportHandler)
    /\ WF_monitor_vars(StartFinish)
    /\ WF_monitor_vars(stop_monitoring_finish)

MonitorFairSpec == Init /\ [][MonitorFairNext]_vars /\ EventLoopFairness

-----------------------------------------------------------------------------
(* FileMonitor: one _export_processor_worker coroutine, statement by
   statement.  The coroutine is suspended at queue.get() and at
   process_export_directory only, so everything between two of these awaits is
   one step; w_events keeps the order of the statements inside it. *)

\* the worker comes back to `while self._status == MonitoringStatus.RUNNING`
AtLoopHead == IF status = "running" THEN "waiting" ELSE "returned"

\* the except Exception branch: the error is logged and task_done() is called
ExceptBranch == <<"error_logged", "task_done">>

\* a callback is called when it is registered; it returns or raises
Fire(callback, raises) ==
    IF callback \in w_callbacks
    THEN IF raises THEN <<callback>> \o ExceptBranch ELSE <<callback>>
    ELSE << >>

Raised(events) == events # << >> /\ events[Len(events)] = "task_done"

\* ProcessingResult(status=result.get("status", IngestionStatus.FAILED))
ResultStatus(outcome) == IF outcome = "no_status" THEN "failed" ELSE outcome

\* the callback of the stored result: completed on success, failed otherwise
CompletionCallback(result_status) ==
    IF result_status = "success" THEN "completed" ELSE "failed"

\* queue.get() returns an export: the id is marked processed, the started
\* callback is called, process_export_directory is called and awaited.  A
\* raising started callback takes the worker to its except branch and back to
\* the loop head.
export_processor_worker_dequeues(started_raises) ==
    /\ w_pc = "waiting"
    /\ processing_queue # <<>>
    /\ LET item == Head(processing_queue)
           started == Fire("started", started_raises)
       IN  /\ processing_queue' = Tail(processing_queue)
           /\ processed_exports' = processed_exports \cup {item.export_id}
           /\ IF Raised(started)
              THEN /\ w_events' = <<"marked_processed">> \o started
                   /\ w_pc' = AtLoopHead
                   /\ w_call' = NoCall
              ELSE /\ w_events' = <<"marked_processed">> \o started \o <<"called">>
                   /\ w_pc' = "awaiting"
                   /\ w_call' = [called |-> TRUE,
                                 export_path |-> item.export_path,
                                 validate_files |-> TRUE,
                                 force_reingest |-> FALSE]
    /\ UNCHANGED <<status, observer, handler, processing_results, tasks,
                   pending_exports, dir_valid, dir_mtime, m_pc, m_call, m_result>>
    /\ UNCHANGED w_callbacks

\* process_export_directory returns a dict (with status success or failed, or
\* without a status) or raises: the ProcessingResult is stored, the history
\* trimmed, the callback of the result called and task_done() called; an
\* exception takes the worker to its except branch.  Then the loop head.
export_processor_worker_resumes(outcome, callback_raises) ==
    /\ w_pc = "awaiting"
    /\ IF outcome = "raises"
       THEN /\ w_events' = w_events \o ExceptBranch
            /\ UNCHANGED processing_results
       ELSE LET fired == Fire(CompletionCallback(ResultStatus(outcome)),
                              callback_raises)
            IN  /\ processing_results' =
                      KeepLast(Append(processing_results,
                                      [export_path |-> w_call.export_path,
                                       status |-> ResultStatus(outcome)]),
                               ResultHistoryCap)
                /\ w_events' =
                      w_events \o <<"appended">> \o fired \o
                      (IF Raised(fired) THEN << >> ELSE <<"task_done">>)
    /\ w_pc' = AtLoopHead
    /\ UNCHANGED <<status, observer, handler, processing_queue, processed_exports,
                   tasks, pending_exports, dir_valid, dir_mtime, m_pc, m_call,
                   m_result>>
    /\ UNCHANGED <<w_call, w_callbacks>>

\* wait_for times out on the empty queue: `continue`, the loop head
export_processor_worker_times_out ==
    /\ w_pc = "waiting"
    /\ processing_queue = <<>>
    /\ w_pc' = AtLoopHead
    /\ w_pc' # w_pc
    /\ UNCHANGED <<w_events, w_call, w_callbacks>>
    /\ UNCHANGED monitor_vars

-----------------------------------------------------------------------------
(* Specification WorkerSpec: one worker of a running monitor, awaited directly
   as the tests of the worker do, with any callbacks registered; exports are
   written and scanned, and the monitor is paused or stopped at any time *)

WorkerMonitorInit ==
    /\ status = "running"
    /\ observer = "started"
    /\ handler = TRUE
    /\ processing_queue = <<>>
    /\ processed_exports = {}
    /\ processing_results = <<>>
    /\ tasks = EmptyBag
    /\ pending_exports = {}
    /\ dir_valid = [d \in ExportDirs |-> FALSE]
    /\ dir_mtime = [d \in ExportDirs |-> 0]
    /\ m_pc = "none"
    /\ m_call = "start"
    /\ m_result = "started"

WorkerRunInit ==
    /\ w_pc = "waiting"
    /\ w_events = << >>
    /\ w_call = NoCall
    /\ w_callbacks \in SUBSET Callbacks

WorkerSpecInit ==
    /\ BatchInit
    /\ WorkerMonitorInit
    /\ IngestInit(EmptyExportDirectory)
    /\ ServiceInit
    /\ ApiInit
    /\ CallInit
    /\ WorkerRunInit
    /\ CoroutineInit

DirectoryOutcomes == {"success", "failed", "no_status", "raises"}

WorkerSpecDequeue ==
    /\ Len(processing_results) < MaxResults
    /\ \E started_raises \in BOOLEAN : export_processor_worker_dequeues(started_raises)

WorkerSpecResume ==
    \E outcome \in DirectoryOutcomes, callback_raises \in BOOLEAN :
        export_processor_worker_resumes(outcome, callback_raises)

WorkerSpecNext ==
    /\ \/ Filesystem /\ UNCHANGED worker_vars
       \/ trigger_directory_scan /\ UNCHANGED worker_vars
       \/ clear_processing_history /\ UNCHANGED worker_vars
       \/ pause_monitoring /\ UNCHANGED worker_vars
       \/ stop_monitoring_enter /\ UNCHANGED worker_vars
       \/ WorkerSpecDequeue
       \/ WorkerSpecResume
       \/ export_processor_worker_times_out
    /\ UNCHANGED <<batch_vars, ingest_vars, service_vars, api_vars, call_vars,
                   coroutine_vars>>

WorkerSpec == WorkerSpecInit /\ [][WorkerSpecNext]_vars

-----------------------------------------------------------------------------
(* Inputs *)

\* episode lists whose k-th element is named EpisodeNames[k]
EpisodeLists(maxLen, types, validity) ==
    UNION {{[k \in 1..n |-> [episode_name |-> EpisodeNames[k],
                              episode_type |-> t[k],
                              valid |-> v[k]]] :
                t \in [1..n -> types], v \in [1..n -> validity]} : n \in 0..maxLen}

\* IngestDirectoryRequest: episode_delay in [0, 30], min_episode_delay in
\* [0, 10], max_episode_delay in [1, 60]
IngestDirectoryRequestAccepts(ed, mn, mx) ==
    /\ ed >= 0 /\ ed <= 30 * Unit
    /\ mn >= 0 /\ mn <= 10 * Unit
    /\ mx >= 1 * Unit /\ mx <= 60 * Unit

EpisodeDelayInputs == {DefaultEpisodeDelay, 30 * Unit, 31 * Unit}
MinEpisodeDelayInputs == {DefaultMinEpisodeDelay, 5 * Unit, 11 * Unit}
MaxEpisodeDelayInputs == {Unit \div 2, 2 * Unit, DefaultMaxEpisodeDelay}

-----------------------------------------------------------------------------
(* Specification BatchOrderSpec: add_episodes_batch with its default delays,
   on lists of valid episodes of every type *)

OrderBegin ==
    /\ b_pc = "idle"
    /\ \E eps \in EpisodeLists(MaxOrderLen, EpisodeTypes, {TRUE}) :
        BeginBatch(eps, DefaultEpisodeDelay, TRUE, DefaultMinEpisodeDelay,
                   DefaultMaxEpisodeDelay)

OrderEngineReturns ==
    \E o \in {EngineSuccess, EngineFailure(EngineOtherText)} : EngineReturns(o)

BatchOrderNext ==
    /\ \/ OrderBegin
       \/ SubmitEpisode
       \/ GetGraphitiRaises
       \/ OrderEngineReturns
       \/ SleepReturns
    /\ UNCHANGED <<monitor_vars, ingest_vars, service_vars, api_vars, call_vars, worker_vars, coroutine_vars>>

BatchOrderSpec == Init /\ [][BatchOrderNext]_vars

(* Specification BatchDelaySpec: add_episodes_batch with the delays of a
   request that IngestDirectoryRequest accepts *)

DelayBegin ==
    /\ b_pc = "idle"
    /\ \E eps \in EpisodeLists(MaxBatchLen, {"gene_profile"}, BOOLEAN),
          ed \in EpisodeDelayInputs, mn \in MinEpisodeDelayInputs,
          mx \in MaxEpisodeDelayInputs, ad \in BOOLEAN :
        /\ IngestDirectoryRequestAccepts(ed, mn, mx)
        /\ BeginBatch(eps, ed, ad, mn, mx)

DelayEngineReturns ==
    \E o \in {EngineSuccess, EngineFailure(EngineRateLimitText),
              EngineFailure(EngineOtherText)} : EngineReturns(o)

BatchDelayNext ==
    /\ \/ DelayBegin
       \/ SubmitEpisode
       \/ GetGraphitiRaises
       \/ ProgressCallbackRaises
       \/ DelayEngineReturns
       \/ SleepReturns
    /\ UNCHANGED <<monitor_vars, ingest_vars, service_vars, api_vars, call_vars, worker_vars, coroutine_vars>>

BatchDelaySpec == Init /\ [][BatchDelayNext]_vars

-----------------------------------------------------------------------------
(* IngestionService: process_export_directory *)

\* _load_episode_from_file: the episode a loadable file holds
_load_episode_from_file(file) ==
    [episode_name |-> file.episode_name,
     episode_type |-> file.episode_type,
     valid |-> file.valid]

RECURSIVE LoadedEpisodes_stop_at_failure(_, _, _, _)
LoadedEpisodes_stop_at_failure(files, force_reingest, episode_types_filter, processed) ==
    IF files = <<>> THEN <<>>
    ELSE LET file == Head(files)
             rest == LoadedEpisodes_stop_at_failure(Tail(files), force_reingest,
                                                    episode_types_filter, processed)
         IN  IF ~file.loadable THEN <<>>
             ELSE IF episode_types_filter # {}
                     /\ file.episode_type \notin episode_types_filter THEN rest
             ELSE IF ~force_reingest /\ file.episode_name \in processed THEN rest
             ELSE <<_load_episode_from_file(file)>> \o rest

\* the loading loop: the files that load, pass the type filter (an empty
\* filter passes everything) and are not skipped as already processed
RECURSIVE LoadedEpisodes(_, _, _, _)
LoadedEpisodes(files, force_reingest, episode_types_filter, processed) ==
    IF files = <<>> THEN <<>>
    ELSE LET file == Head(files)
             rest == LoadedEpisodes(Tail(files), force_reingest,
                                    episode_types_filter, processed)
         IN  IF ~file.loadable THEN rest
             ELSE IF episode_types_filter # {}
                     /\ file.episode_type \notin episode_types_filter THEN rest
             ELSE IF ~force_reingest /\ file.episode_name \in processed THEN rest
             ELSE <<_load_episode_from_file(file)>> \o rest

\* the loading loop: one load_errors entry, here the file's name, per file
\* that fails to load
RECURSIVE LoadErrors(_)
LoadErrors(files) ==
    IF files = <<>> THEN <<>>
    ELSE IF Head(files).loadable
         THEN LoadErrors(Tail(files))
         ELSE <<Head(files).episode_name>> \o LoadErrors(Tail(files))

\* the early returns and the except branches of process_export_directory
NoEpisodeFilesResult ==
    [status |-> "failed",
     error |-> "No episode files found in export directory",
     export_id |-> ManifestExportId]

AlreadyProcessedResult ==
    [status |-> "success",
     message |-> "All episodes already processed",
     export_id |-> ManifestExportId]

ExportValidationFailedResult ==
    [status |-> "failed", error |-> "Export validation failed"]

UnexpectedErrorResult ==
    [status |-> "failed", error |-> "Unexpected error processing export"]

\* a result that reports failed as soon as a file failed to load
ExportResult_load_errors_fail(files, eps, errors, ingestion_result) ==
    [status |-> IF errors # <<>> THEN "failed" ELSE ingestion_result.status,
     export_id |-> ManifestExportId,
     total_files_discovered |-> Len(files),
     total_episodes_loaded |-> Len(eps),
     load_errors |-> errors,
     ingestion_results |-> ingestion_result]

\* the dict returned after the batch
ExportResult(files, eps, errors, ingestion_result) ==
    [status |-> ingestion_result.status,
     export_id |-> ManifestExportId,
     total_files_discovered |-> Len(files),
     total_episodes_loaded |-> Len(eps),
     load_errors |-> errors,
     ingestion_results |-> ingestion_result]

\* the names of the failed results of a batch
FailedNames(ingestion_result) ==
    {ingestion_result.episode_results[k].episode_name :
        k \in {j \in 1..Len(ingestion_result.episode_results) :
                  ingestion_result.episode_results[j].status = "failed"}}

\* a tracking that takes the names of the failed results out of the set
ProcessedAfterBatch_drops_failed(processed, eps, ingestion_result) ==
    (processed \cup {eps[k].episode_name : k \in 1..Len(eps)})
        \ FailedNames(ingestion_result)

\* "Track processed episodes": every episode of the batch whose name is not
\* the name of a failed result
ProcessedAfterBatch(processed, eps, ingestion_result) ==
    processed \cup ({eps[k].episode_name : k \in 1..Len(eps)}
                        \ FailedNames(ingestion_result))

\* one returned call of process_export_directory
RunEntry(args, result, client_called, batch_episodes, engine_submitted) ==
    [kind |-> "run",
     force_reingest |-> args.force_reingest,
     episode_types_filter |-> args.episode_types_filter,
     result |-> result,
     client_called |-> client_called,
     batch_episodes |-> batch_episodes,
     engine_submitted |-> engine_submitted]

ClearEntry == [kind |-> "clear"]

\* a return before add_episodes_batch is called
ReturnEarly(args, result) ==
    /\ d_log' = Append(d_log, RunEntry(args, result, FALSE, <<>>, <<>>))
    /\ d_args' = args
    /\ UNCHANGED <<d_pc, d_episodes, d_load_errors, d_files, processed_episodes,
                   export_dir, s_pc, s_args, s_result, s_client>>
    /\ UNCHANGED batch_vars

\* process_export_directory up to the await of add_episodes_batch
process_export_directory_begin(force_reingest, episode_types_filter) ==
    /\ d_pc = "idle"
    /\ b_pc = "idle"
    /\ Len(d_log) < MaxLog
    /\ LET args == [force_reingest |-> force_reingest,
                    episode_types_filter |-> episode_types_filter]
           eps == LoadedEpisodes(export_dir.files, force_reingest,
                                 episode_types_filter, processed_episodes)
           errors == LoadErrors(export_dir.files)
       IN  IF export_dir.manifest # "ok"
           THEN ReturnEarly(args, ExportValidationFailedResult)
           ELSE IF export_dir.listing # "ok"
           THEN ReturnEarly(args, UnexpectedErrorResult)
           ELSE IF export_dir.files = <<>>
           THEN ReturnEarly(args, NoEpisodeFilesResult)
           ELSE IF eps = <<>> /\ errors = <<>>
           THEN ReturnEarly(args, AlreadyProcessedResult)
           ELSE /\ d_pc' = "batch"
                /\ d_args' = args
                /\ d_files' = export_dir.files
                /\ d_episodes' = _get_episode_processing_order(eps)
                /\ d_load_errors' = errors
                /\ BeginBatch(_get_episode_processing_order(eps), DefaultEpisodeDelay,
                              TRUE, DefaultMinEpisodeDelay, DefaultMaxEpisodeDelay)
                /\ UNCHANGED <<d_log, processed_episodes, export_dir, s_pc, s_args,
                               s_result, s_client>>

\* add_episodes_batch has returned: the processed set, the result
process_export_directory_return ==
    /\ d_pc = "batch"
    /\ b_pc = "returned"
    /\ processed_episodes' =
          ProcessedAfterBatch(processed_episodes, d_episodes, batch_result)
    /\ d_log' = Append(d_log,
                       RunEntry(d_args,
                                ExportResult(d_files, d_episodes, d_load_errors,
                                             batch_result),
                                TRUE, d_episodes, submitted))
    /\ d_pc' = "idle"
    /\ d_episodes' = <<>>
    /\ d_load_errors' = <<>>
    /\ d_files' = <<>>
    /\ b_pc' = "idle"
    /\ episodes' = <<>>
    /\ sorted_episodes' = <<>>
    /\ i' = 0
    /\ results' = <<>>
    /\ successful' = 0
    /\ failed' = 0
    /\ current_delay' = DefaultEpisodeDelay
    /\ rate_limit_count' = 0
    /\ batch_result' = NoResult
    /\ submitted' = <<>>
    /\ sleeps' = <<>>
    /\ UNCHANGED <<episode_delay, adaptive_delays, min_episode_delay,
                   max_episode_delay, inflight, graphiti>>
    /\ UNCHANGED <<d_args, export_dir, s_pc, s_args, s_result, s_client>>

\* IngestionService.clear_processing_history
IngestionService_clear_processing_history ==
    /\ Len(d_log) < MaxLog
    /\ processed_episodes' = {}
    /\ d_log' = Append(d_log, ClearEntry)
    /\ UNCHANGED <<export_dir, d_pc, d_args, d_episodes, d_load_errors, d_files,
                   s_pc, s_args, s_result, s_client>>
    /\ UNCHANGED batch_vars

-----------------------------------------------------------------------------
(* IngestionService: process_single_episode, and the client's add_episode *)

batch_locals == <<b_pc, episodes, sorted_episodes, i, results, successful, failed,
                  current_delay, rate_limit_count, episode_delay, adaptive_delays,
                  min_episode_delay, max_episode_delay, batch_result, submitted,
                  inflight, sleeps>>

ClientCall(raised, result) ==
    [called |-> TRUE, calls |-> 1, raised |-> raised, result |-> result]

\* the dict of the except branch of process_single_episode
SingleFailedResult(episode, text) ==
    [status |-> "failed", episode_name |-> episode.episode_name, error |-> text]

SingleAlreadyProcessedResult(episode) ==
    [status |-> "success", message |-> <<"Episode", episode.episode_name,
                                          "already", "processed">>]

ProcessedAfterSingle_always(processed, episode, result) ==
    processed \cup {episode.episode_name}

\* "Track processed episode": the name is added when the status is success
ProcessedAfterSingle(processed, episode, result) ==
    IF result.status = "success"
    THEN processed \cup {episode.episode_name}
    ELSE processed

\* process_single_episode up to the await inside add_episode.  The call
\* returns at once for a processed name; add_episode raises at once for an
\* invalid episode (GraphitiValidationError) and when the engine instance
\* cannot be created (UnboundLocalError out of its handler).
process_single_episode_begin(episode, force_reingest, instance_created) ==
    /\ s_pc = "idle"
    /\ s_args' = [episode |-> episode, force_reingest |-> force_reingest]
    /\ IF ~force_reingest /\ episode.episode_name \in processed_episodes
       THEN /\ s_result' = SingleAlreadyProcessedResult(episode)
            /\ s_client' = NoClientCall
            /\ UNCHANGED <<s_pc, graphiti>>
       ELSE IF ~_validate_episode(episode)
       THEN /\ s_result' = SingleFailedResult(episode, ValidationText)
            /\ s_client' = ClientCall(TRUE, NoResult)
            /\ UNCHANGED <<s_pc, graphiti>>
       ELSE IF ~graphiti /\ ~instance_created
       THEN /\ s_result' = SingleFailedResult(episode, UnboundLocalText)
            /\ s_client' = ClientCall(TRUE, NoResult)
            /\ UNCHANGED <<s_pc, graphiti>>
       ELSE /\ s_pc' = "awaiting"
            /\ graphiti' = TRUE
            /\ UNCHANGED <<s_result, s_client>>
    /\ UNCHANGED <<processed_episodes, export_dir, d_pc, d_args, d_episodes,
                   d_load_errors, d_files, d_log>>
    /\ UNCHANGED batch_locals

\* the engine returns or times out: add_episode returns its dict and
\* process_single_episode tracks the name
process_single_episode_return(outcome) ==
    /\ s_pc = "awaiting"
    /\ LET result == AddEpisodeResult(s_args.episode, outcome)
       IN  /\ s_result' = result
           /\ s_client' = ClientCall(FALSE, result)
           /\ processed_episodes' =
                  ProcessedAfterSingle(processed_episodes, s_args.episode, result)
    /\ s_pc' = "idle"
    /\ UNCHANGED <<s_args, export_dir, d_pc, d_args, d_episodes, d_load_errors,
                   d_files, d_log>>
    /\ UNCHANGED batch_vars

-----------------------------------------------------------------------------
(* Specification IngestSpec: directory runs, single-episode calls and history
   clears of one IngestionService over one export directory *)

IngestInit_any == \E dir \in ExportDirectories : IngestInit(dir)

IngestSpecInit ==
    BatchInit /\ MonitorInit /\ IngestInit_any /\ ServiceInit /\ ApiInit /\ CallInit
    /\ WorkerInit
    /\ CoroutineInit

FilterInputs == {{}, {"gene_profile"}}

\* the episode of a single-episode request is the one a directory run with
\* two files submits first (gene_profile sorts before gwas_evidence), so a
\* request can arrive while the run sleeps between its submissions
SingleEpisodes ==
    {[episode_name |-> EpisodeNames[2], episode_type |-> FileTypes[2], valid |-> v] :
        v \in BOOLEAN}

EngineOutcomes == {EngineSuccess, EngineFailure(EngineOtherText), EngineTimeout}

DirectoryBegin ==
    \E f \in BOOLEAN, flt \in FilterInputs : process_export_directory_begin(f, flt)

DirectoryEngineReturns ==
    /\ \E o \in EngineOutcomes : EngineReturns(o)
    /\ UNCHANGED ingest_vars

SingleBegin ==
    /\ s_pc = "idle"
    /\ \E e \in SingleEpisodes, f \in BOOLEAN, c \in BOOLEAN :
          process_single_episode_begin(e, f, c)

SingleReturn == \E o \in EngineOutcomes : process_single_episode_return(o)

IngestNext ==
    /\ \/ DirectoryBegin
       \/ SubmitEpisode /\ UNCHANGED ingest_vars
       \/ GetGraphitiRaises /\ UNCHANGED ingest_vars
       \/ DirectoryEngineReturns
       \/ SleepReturns /\ UNCHANGED ingest_vars
       \/ process_export_directory_return
       \/ IngestionService_clear_processing_history
       \/ SingleBegin
       \/ SingleReturn
    /\ UNCHANGED <<monitor_vars, service_vars, api_vars, call_vars, worker_vars, coroutine_vars>>

IngestSpec == IngestSpecInit /\ [][IngestNext]_vars

-----------------------------------------------------------------------------
(* BackgroundTaskManager *)

DefaultMaxAgeHours == 24
NotCompleted == -1

\* datetime.hour of a clock reading
Hour(t) == (t \div TicksPerHour) % HoursPerDay

\* datetime.replace(hour=h) raises ValueError unless h is in 0..23
ReplaceHourRaises(h) == h < 0 \/ h > HoursPerDay - 1

\* cutoff_time.replace(hour=cutoff_time.hour - max_age_hours), when it does
\* not raise: the same day and minute, another hour
CutoffTime(t, max_age_hours) == t - max_age_hours * TicksPerHour

CutoffRaises(t, max_age_hours) == ReplaceHourRaises(Hour(t) - max_age_hours)

\* the entry create_task stores; completed_at is absent until completion
NewEntry ==
    [status |-> "running", result |-> "None", error |-> "None",
     completed_at |-> NotCompleted, task |-> "created", notified |-> FALSE]

HasTask(task_id) == task_id \in DOMAIN bg_tasks

Put(f, k, v) == [x \in DOMAIN f \cup {k} |-> IF x = k THEN v ELSE f[x]]

Restrict(f, keep) == [x \in keep |-> f[x]]

lifespan_vars == <<services, l_pc, l_aborted, l_attempts>>

create_task_overwrite(task_id) ==
    /\ l_pc = "serving"
    /\ bg_tasks' = Put(bg_tasks, task_id, NewEntry)
    /\ create_result' = task_id
    /\ UNCHANGED <<now, cleanup_result, response, current_operations, lifespan_vars>>

\* BackgroundTaskManager.create_task, as called by POST /ingest/directory
create_task(task_id) ==
    /\ l_pc = "serving"
    /\ IF HasTask(task_id)
       THEN /\ create_result' = "ValueError"
            /\ UNCHANGED bg_tasks
       ELSE /\ bg_tasks' = Put(bg_tasks, task_id, NewEntry)
            /\ create_result' = task_id
    /\ UNCHANGED <<now, cleanup_result, response, current_operations, lifespan_vars>>

\* the coroutine of the task starts: background_directory_ingestion registers
\* the operation
TaskStarts(task_id) ==
    /\ HasTask(task_id)
    /\ bg_tasks[task_id].task = "created"
    /\ bg_tasks' = [bg_tasks EXCEPT ![task_id].task = "started"]
    /\ current_operations' =
          Put(current_operations, task_id, [progress |-> 0, started_at |-> now])
    /\ UNCHANGED <<now, create_result, cleanup_result, response, lifespan_vars>>

\* the coroutine returns its result: the operation is at 100 percent
TaskReturns(task_id) ==
    /\ HasTask(task_id)
    /\ bg_tasks[task_id].task = "started"
    /\ bg_tasks' = [bg_tasks EXCEPT ![task_id].task = "returned"]
    /\ current_operations' =
          IF task_id \in DOMAIN current_operations
          THEN [current_operations EXCEPT ![task_id].progress = 100]
          ELSE current_operations
    /\ UNCHANGED <<now, create_result, cleanup_result, response, lifespan_vars>>

\* the coroutine raises
TaskRaises(task_id) ==
    /\ HasTask(task_id)
    /\ bg_tasks[task_id].task = "started"
    /\ bg_tasks' = [bg_tasks EXCEPT ![task_id].task = "raised"]
    /\ UNCHANGED <<now, create_result, cleanup_result, response, current_operations,
                   lifespan_vars>>

\* the task is cancelled before it has finished
TaskCancelled(task_id) ==
    /\ HasTask(task_id)
    /\ bg_tasks[task_id].task \in {"created", "started"}
    /\ bg_tasks' = [bg_tasks EXCEPT ![task_id].task = "cancelled"]
    /\ UNCHANGED <<now, create_result, cleanup_result, response, current_operations,
                   lifespan_vars>>

EntryAfterCompletion_returned_fails(entry, t) ==
    IF entry.task \in {"raised", "returned"}
    THEN [entry EXCEPT !.status = "failed", !.error = "exception text",
                       !.completed_at = t, !.notified = TRUE]
    ELSE [entry EXCEPT !.notified = TRUE]

\* the entry after _task_completed: task.exception() returns the exception
\* of a task that raised, None for one that returned, and raises
\* CancelledError for a cancelled one, which leaves the entry as it was
EntryAfterCompletion(entry, t) ==
    CASE entry.task = "raised" ->
            [entry EXCEPT !.status = "failed", !.error = "exception text",
                          !.completed_at = t, !.notified = TRUE]
      [] entry.task = "returned" ->
            [entry EXCEPT !.status = "completed", !.result = "return value",
                          !.completed_at = t, !.notified = TRUE]
      [] OTHER -> [entry EXCEPT !.notified = TRUE]

\* BackgroundTaskManager._task_completed, scheduled by the done callback
_task_completed(task_id) ==
    /\ HasTask(task_id)
    /\ bg_tasks[task_id].task \in {"returned", "raised", "cancelled"}
    /\ ~bg_tasks[task_id].notified
    /\ bg_tasks' = [bg_tasks EXCEPT ![task_id] = EntryAfterCompletion(@, now)]
    /\ UNCHANGED <<now, create_result, cleanup_result, response, current_operations,
                   lifespan_vars>>

\* the ids of the entries cleanup_completed_tasks keeps
KeptTasks(entries, cutoff_time) ==
    {task_id \in DOMAIN entries :
        ~(entries[task_id].status \in {"completed", "failed"}
            /\ entries[task_id].completed_at < cutoff_time)}

\* the effect of BackgroundTaskManager.cleanup_completed_tasks on the entries
TasksAfterCleanup(entries, t, max_age_hours) ==
    IF CutoffRaises(t, max_age_hours)
    THEN entries
    ELSE Restrict(entries, KeptTasks(entries, CutoffTime(t, max_age_hours)))

\* BackgroundTaskManager.cleanup_completed_tasks
cleanup_completed_tasks(max_age_hours) ==
    /\ l_pc = "serving"
    /\ bg_tasks' = TasksAfterCleanup(bg_tasks, now, max_age_hours)
    /\ cleanup_result' = IF CutoffRaises(now, max_age_hours) THEN "ValueError" ELSE "ok"
    /\ UNCHANGED <<now, create_result, response, current_operations, lifespan_vars>>

\* the operations cleanup_operations keeps
KeptOperations(operations, cutoff_time) ==
    {op_id \in DOMAIN operations :
        ~(operations[op_id].progress >= 100
            /\ operations[op_id].started_at < cutoff_time)}

\* DELETE /operations/cleanup: 500 when anything in the handler raises
cleanup_operations(max_age_hours) ==
    /\ l_pc = "serving"
    /\ bg_tasks' = TasksAfterCleanup(bg_tasks, now, max_age_hours)
    /\ IF CutoffRaises(now, max_age_hours)
       THEN /\ cleanup_result' = "ValueError"
            /\ response' = 500
            /\ UNCHANGED current_operations
       ELSE /\ cleanup_result' = "ok"
            /\ response' = 200
            /\ current_operations' =
                  Restrict(current_operations,
                           KeptOperations(current_operations,
                                          CutoffTime(now, max_age_hours)))
    /\ UNCHANGED <<now, create_result, lifespan_vars>>

\* time passes
Tick ==
    /\ now < LastTick
    /\ now' = now + 1
    /\ UNCHANGED <<bg_tasks, create_result, cleanup_result, response,
                   current_operations, lifespan_vars>>

-----------------------------------------------------------------------------
(* lifespan *)

StoredServices ==
    {"settings", "graphiti_client", "ingestion_service", "file_monitor",
     "task_manager", "connection_monitor"}

StartupOutcomes == {"started", "settings_error", "invalid_configuration"}

task_vars == <<now, bg_tasks, create_result, cleanup_result, response,
               current_operations>>

\* lifespan up to the yield: the services are stored once the settings have
\* loaded and the configuration has been found valid; otherwise the startup
\* raises and the finally block runs
lifespan_startup(outcome) ==
    /\ l_pc = "startup"
    /\ IF outcome = "started"
       THEN /\ services' = StoredServices
            /\ l_pc' = "serving"
            /\ UNCHANGED l_aborted
       ELSE /\ l_aborted' = TRUE
            /\ l_pc' = "stop_monitoring"
            /\ UNCHANGED services
    /\ UNCHANGED <<l_attempts, task_vars>>

\* the application stops serving: the finally block runs
lifespan_exit ==
    /\ l_pc = "serving"
    /\ l_pc' = "stop_monitoring"
    /\ UNCHANGED <<services, l_aborted, l_attempts, task_vars>>

Attempt(step, failed_step) == [step |-> step, failed |-> failed_step]

NextStep_abort_on_failure(next, failed_step) == IF failed_step THEN "done" ELSE next

\* every step of the finally block is inside its own try/except Exception
NextStep(next, failed_step) == next

\* "Stop file monitoring"
shutdown_stop_monitoring(failed_step) ==
    /\ l_pc = "stop_monitoring"
    /\ IF "file_monitor" \in services
       THEN /\ l_attempts' = Append(l_attempts, Attempt("stop_monitoring", failed_step))
            /\ l_pc' = NextStep("close", failed_step)
       ELSE /\ ~failed_step
            /\ l_pc' = "close"
            /\ UNCHANGED l_attempts
    /\ UNCHANGED <<services, l_aborted, task_vars>>

\* "Close GraphitiClient"
shutdown_close(failed_step) ==
    /\ l_pc = "close"
    /\ IF "graphiti_client" \in services
       THEN /\ l_attempts' = Append(l_attempts, Attempt("close", failed_step))
            /\ l_pc' = NextStep("cleanup", failed_step)
       ELSE /\ ~failed_step
            /\ l_pc' = "cleanup"
            /\ UNCHANGED l_attempts
    /\ UNCHANGED <<services, l_aborted, task_vars>>

\* "Clean up background tasks": task_manager.cleanup_completed_tasks(0)
shutdown_cleanup ==
    /\ l_pc = "cleanup"
    /\ bg_tasks' = TasksAfterCleanup(bg_tasks, now, 0)
    /\ cleanup_result' = IF CutoffRaises(now, 0) THEN "ValueError" ELSE "ok"
    /\ l_attempts' = Append(l_attempts,
                            Attempt("cleanup_completed_tasks", CutoffRaises(now, 0)))
    /\ l_pc' = "done"
    /\ UNCHANGED <<now, create_result, response, current_operations, services,
                   l_aborted>>

-----------------------------------------------------------------------------
(* Specification ServiceSpec: the task manager, the cleanup endpoint and the
   lifespan of the application *)

MaxAgeHoursInputs == {0, 1, DefaultMaxAgeHours}

ServiceNext ==
    /\ \/ \E outcome \in StartupOutcomes : lifespan_startup(outcome)
       \/ lifespan_exit
       \/ \E f \in BOOLEAN : shutdown_stop_monitoring(f)
       \/ \E f \in BOOLEAN : shutdown_close(f)
       \/ shutdown_cleanup
       \/ \E task_id \in TaskIds : create_task(task_id)
       \/ \E task_id \in TaskIds : TaskStarts(task_id)
       \/ \E task_id \in TaskIds : TaskReturns(task_id)
       \/ \E task_id \in TaskIds : TaskRaises(task_id)
       \/ \E task_id \in TaskIds : TaskCancelled(task_id)
       \/ \E task_id \in TaskIds : _task_completed(task_id)
       \/ \E h \in MaxAgeHoursInputs : cleanup_completed_tasks(h)
       \/ \E h \in MaxAgeHoursInputs : cleanup_operations(h)
       \/ Tick
    /\ UNCHANGED <<batch_vars, monitor_vars, ingest_vars, api_vars, call_vars, worker_vars, coroutine_vars>>

ServiceSpec == Init /\ [][ServiceNext]_vars

-----------------------------------------------------------------------------
(* GraphitiClient.initialize_database under its retry decorator *)

MaxInitAttempts == 3

\* the exception classes named by retry_if_exception_type
RetriedErrors == {"GraphitiConnectionError", "ConnectionError"}

\* what the body of one attempt can meet: success, or an exception of
\* _get_graphiti or build_indices_and_constraints
InitTries == {"ok", "ConnectionError", "ValueError"}

RaisedByAttempt_unwrapped(met) == met

\* except Exception as e: raise GraphitiConnectionError(error_msg) from e
RaisedByAttempt(met) == "GraphitiConnectionError"

\* the retry decorator after a failed attempt: an exception outside
\* RetriedErrors propagates; otherwise another attempt follows until
\* stop_after_attempt, and then RetryError is raised (reraise is not set)
AfterFailedAttempt(attempt_number, raised) ==
    IF raised \notin RetriedErrors THEN raised
    ELSE IF attempt_number >= MaxInitAttempts THEN "RetryError"
    ELSE "retry"

InitializeDatabaseOutcome(tries) ==
    IF tries[Len(tries)] = "ok" THEN "success"
    ELSE AfterFailedAttempt(Len(tries), RaisedByAttempt(tries[Len(tries)]))

-----------------------------------------------------------------------------
(* lifespan: the startup, one step per await *)

StartupSteps == <<"initialize_database", "test_connection", "start_monitoring">>

lifespan_abort ==
    /\ l_aborted' = TRUE
    /\ l_pc' = "stop_monitoring"

StartupStepFails_aborts(next, failed_step) ==
    IF failed_step THEN lifespan_abort ELSE l_pc' = next /\ UNCHANGED l_aborted

\* each of the three steps after the services are stored is inside its own
\* try/except Exception, which logs
StartupStepFails(next, failed_step) == l_pc' = next /\ UNCHANGED l_aborted

\* settings = Settings.from_env()
lifespan_load_settings(loaded, enable_monitoring) ==
    /\ l_pc = "startup"
    /\ IF loaded
       THEN /\ settings' = [loaded |-> TRUE, enable_monitoring |-> enable_monitoring]
            /\ l_pc' = "validate"
            /\ UNCHANGED l_aborted
       ELSE /\ lifespan_abort
            /\ UNCHANGED settings
    /\ UNCHANGED <<services, l_attempts, task_vars, validation_results, l_startup,
                   database_initialized, init_tries, init_outcome, http>>

\* validate_configuration, raise_for_validation_errors, and the creation and
\* the storing of the services
lifespan_validate(valid, warnings) ==
    /\ l_pc = "validate"
    /\ validation_results' = [validated |-> TRUE, valid |-> valid, warnings |-> warnings]
    /\ IF valid
       THEN /\ services' = StoredServices
            /\ l_pc' = "initialize_database"
            /\ UNCHANGED l_aborted
       ELSE /\ lifespan_abort
            /\ UNCHANGED services
    /\ UNCHANGED <<l_attempts, task_vars, settings, l_startup, database_initialized,
                   init_tries, init_outcome, http>>

AfterConnectionTest ==
    IF settings.enable_monitoring THEN "start_monitoring" ELSE "serving"

\* one attempt of graphiti_client.initialize_database(); when the call ends,
\* the lifespan goes on with the connection test
lifespan_initialize_database(met) ==
    /\ l_pc = "initialize_database"
    /\ init_tries' = Append(init_tries, met)
    /\ database_initialized' = (database_initialized \/ met = "ok")
    /\ LET outcome == InitializeDatabaseOutcome(init_tries')
       IN  IF outcome = "retry"
           THEN UNCHANGED <<init_outcome, l_startup, l_pc, l_aborted>>
           ELSE /\ init_outcome' = outcome
                /\ l_startup' = Append(l_startup, Attempt("initialize_database",
                                                          outcome # "success"))
                /\ StartupStepFails("test_connection", outcome # "success")
    /\ UNCHANGED <<services, l_attempts, task_vars, settings, validation_results, http>>

\* graphiti_client.test_connection()
lifespan_test_connection(raised) ==
    /\ l_pc = "test_connection"
    /\ l_startup' = Append(l_startup, Attempt("test_connection", raised))
    /\ StartupStepFails(AfterConnectionTest, raised)
    /\ UNCHANGED <<services, l_attempts, task_vars, settings, validation_results,
                   database_initialized, init_tries, init_outcome, http>>

\* file_monitor.start_monitoring(), if settings.enable_monitoring
lifespan_start_monitoring(raised) ==
    /\ l_pc = "start_monitoring"
    /\ l_startup' = Append(l_startup, Attempt("start_monitoring", raised))
    /\ StartupStepFails("serving", raised)
    /\ UNCHANGED <<services, l_attempts, task_vars, settings, validation_results,
                   database_initialized, init_tries, init_outcome, http>>

-----------------------------------------------------------------------------
(* main.py: the dependency accessors *)

ServiceKey ==
    [get_settings |-> "settings",
     get_graphiti_client |-> "graphiti_client",
     get_ingestion_service |-> "ingestion_service",
     get_file_monitor |-> "file_monitor",
     get_task_manager |-> "task_manager"]

Accessors == DOMAIN ServiceKey

\* an accessor's result: the instance it returned (code 0, no HTTP error), or
\* the HTTPException it raised
Returned(accessor, instance) ==
    [endpoint |-> accessor, code |-> 0, body |-> [instance |-> instance]]

HTTPException(endpoint, status_code) ==
    [endpoint |-> endpoint, code |-> status_code, body |-> << >>]

Accessor_unchecked(accessor, registered) ==
    IF ServiceKey[accessor] \notin registered
    THEN HTTPException(accessor, 500)
    ELSE Returned(accessor, ServiceKey[accessor])

\* if key not in _services: raise HTTPException(status_code=503, ...);
\* return _services[key] (an instance is named by the key it is stored under)
Accessor(accessor, registered) ==
    IF ServiceKey[accessor] \notin registered
    THEN HTTPException(accessor, 503)
    ELSE Returned(accessor, ServiceKey[accessor])

call_accessor(accessor) ==
    /\ http' = Accessor(accessor, services)
    /\ UNCHANGED <<service_vars, settings, validation_results, l_startup,
                   database_initialized, init_tries, init_outcome>>

-----------------------------------------------------------------------------
(* api/health.py: GET /health/deep and GET /health/ready *)

\* GraphitiClient.test_connection: both tests catch every exception
test_connection(neo4j_up, openai_up) ==
    [neo4j_connected |-> neo4j_up,
     openai_accessible |-> openai_up,
     graphiti_ready |-> neo4j_up /\ openai_up /\ database_initialized]

\* a dependency that raises ends the request with the HTTPException
Depends(endpoint, accessors, answer) ==
    IF \E a \in accessors : Accessor(a, services).code # 0
    THEN HTTPException(endpoint,
                       (CHOOSE a \in accessors : Accessor(a, services).code # 0).code)
    ELSE answer

HealthResponse(health_status, neo4j_connected, openai_api_accessible, graphiti_ready) ==
    [endpoint |-> "/health/deep", code |-> 200,
     body |-> [status |-> health_status,
               neo4j_connected |-> neo4j_connected,
               openai_api_accessible |-> openai_api_accessible,
               graphiti_ready |-> graphiti_ready]]

deep_health_check_body_error_503(raised, connection_result) ==
    IF raised
    THEN [HealthResponse("unhealthy", FALSE, FALSE, FALSE) EXCEPT !.code = 503]
    ELSE HealthResponse(IF connection_result.graphiti_ready THEN "healthy" ELSE "degraded",
                        connection_result.neo4j_connected,
                        connection_result.openai_accessible,
                        connection_result.graphiti_ready)

\* the try block and the except Exception of deep_health_check
deep_health_check_body(raised, connection_result) ==
    IF raised
    THEN HealthResponse("unhealthy", FALSE, FALSE, FALSE)
    ELSE HealthResponse(IF connection_result.graphiti_ready THEN "healthy" ELSE "degraded",
                        connection_result.neo4j_connected,
                        connection_result.openai_accessible,
                        connection_result.graphiti_ready)

handler_unchanged == UNCHANGED <<service_vars, settings, validation_results, l_startup,
                                 database_initialized, init_tries, init_outcome>>

\* requests are served between the end of the startup and the shutdown
deep_health_check(raised, neo4j_up, openai_up) ==
    /\ l_pc = "serving"
    /\ http' = Depends("/health/deep", {"get_graphiti_client"},
                       deep_health_check_body(raised, test_connection(neo4j_up, openai_up)))
    /\ handler_unchanged

JSONResponse(status_code, ready_status, connection_result) ==
    [endpoint |-> "/health/ready", code |-> status_code,
     body |-> [status |-> ready_status,
               neo4j |-> connection_result.neo4j_connected,
               openai |-> connection_result.openai_accessible]]

readiness_probe_body_any(raised, connection_result) ==
    IF raised
    THEN JSONResponse(503, "error", test_connection(FALSE, FALSE))
    ELSE IF connection_result.neo4j_connected \/ connection_result.openai_accessible
         THEN JSONResponse(200, "ready", connection_result)
         ELSE JSONResponse(503, "not_ready", connection_result)

\* the try block and the except Exception of readiness_probe (the error
\* response carries no services; they are shown as not connected)
readiness_probe_body(raised, connection_result) ==
    IF raised
    THEN JSONResponse(503, "error", test_connection(FALSE, FALSE))
    ELSE IF connection_result.neo4j_connected /\ connection_result.openai_accessible
         THEN JSONResponse(200, "ready", connection_result)
         ELSE JSONResponse(503, "not_ready", connection_result)

readiness_probe(raised, neo4j_up, openai_up) ==
    /\ l_pc = "serving"
    /\ http' = Depends("/health/ready", {"get_graphiti_client", "get_file_monitor"},
                       readiness_probe_body(raised, test_connection(neo4j_up, openai_up)))
    /\ handler_unchanged

-----------------------------------------------------------------------------
(* api/endpoints.py: POST /ingest/directory *)

HexDigits == {"0", "1", "2", "3", "4", "5", "6", "7", "8", "9",
              "a", "b", "c", "d", "e", "f"}

UuidHexLen == 32

OperationIdHexLen == 8

\* values of uuid.uuid4().hex: two of them differ only after the eighth digit
Uuid4Hex ==
    {[k \in 1..UuidHexLen |-> "a"],
     [k \in 1..UuidHexLen |-> IF k <= OperationIdHexLen THEN "a" ELSE "0"],
     [k \in 1..UuidHexLen |-> IF k % 2 = 1 THEN "7" ELSE "e"]}

\* f"ingest_{uuid.uuid4().hex[:8]}": the prefix, then the digits
OperationId(uuid_hex) == <<"ingest_">> \o SubSeq(uuid_hex, 1, OperationIdHexLen)

PathKinds == {"missing", "file", "directory"}

PathCheck_exists_only(path) == IF path = "missing" THEN 404 ELSE 0

\* the two tests of request.directory_path; 0: the handler goes on
PathCheck(path) ==
    IF path = "missing" THEN 404
    ELSE IF path # "directory" THEN 400
    ELSE 0

IngestionResponse(ingestion_status, operation_id) ==
    [endpoint |-> "/ingest/directory", code |-> 200,
     body |-> [status |-> ingestion_status, operation_id |-> operation_id,
               episodes_processed |-> 0]]

ingest_directory(path, uuid_hex) ==
    /\ l_pc = "serving"
    /\ IF PathCheck(path) # 0
       THEN /\ http' = Depends("/ingest/directory",
                               {"get_ingestion_service", "get_task_manager"},
                               HTTPException("/ingest/directory", PathCheck(path)))
            /\ UNCHANGED service_vars
       ELSE /\ create_task(OperationId(uuid_hex))
            /\ http' = Depends("/ingest/directory",
                               {"get_ingestion_service", "get_task_manager"},
                               IF create_result' = "ValueError"
                               THEN HTTPException("/ingest/directory", 500)
                               ELSE IngestionResponse("processing",
                                                      OperationId(uuid_hex)))
    /\ UNCHANGED <<settings, validation_results, l_startup, database_initialized,
                   init_tries, init_outcome>>

-----------------------------------------------------------------------------
(* Specification ApiSpec: the lifespan step by step and the HTTP handlers *)

WarningCounts == 0..MaxWarnings

ApiNext ==
    /\ \/ \E loaded, enable_monitoring \in BOOLEAN :
              lifespan_load_settings(loaded, enable_monitoring)
       \/ \E valid \in BOOLEAN, warnings \in WarningCounts :
              lifespan_validate(valid, warnings)
       \/ \E met \in InitTries : lifespan_initialize_database(met)
       \/ \E raised \in BOOLEAN : lifespan_test_connection(raised)
       \/ \E raised \in BOOLEAN : lifespan_start_monitoring(raised)
       \/ \E accessor \in Accessors : call_accessor(accessor)
       \/ \E path \in PathKinds, uuid_hex \in Uuid4Hex : ingest_directory(path, uuid_hex)
       \/ \E raised, neo4j_up, openai_up \in BOOLEAN :
              deep_health_check(raised, neo4j_up, openai_up)
       \/ \E raised, neo4j_up, openai_up \in BOOLEAN :
              readiness_probe(raised, neo4j_up, openai_up)
       \/ lifespan_exit /\ UNCHANGED api_vars
       \/ \E f \in BOOLEAN : shutdown_stop_monitoring(f) /\ UNCHANGED api_vars
       \/ \E f \in BOOLEAN : shutdown_close(f) /\ UNCHANGED api_vars
       \/ shutdown_cleanup /\ UNCHANGED api_vars
    /\ UNCHANGED <<batch_vars, monitor_vars, ingest_vars, call_vars, worker_vars, coroutine_vars>>

ApiSpec == Init /\ [][ApiNext]_vars

-----------------------------------------------------------------------------
(* api/endpoints.py: background_directory_ingestion, the coroutine that
   POST /ingest/directory hands to the task manager *)

\* the episode_delay, adaptive_delays, min_episode_delay and max_episode_delay
\* of a request: the defaults of IngestDirectoryRequest, and other accepted values
DefaultDelays ==
    [episode_delay |-> DefaultEpisodeDelay, adaptive_delays |-> TRUE,
     min_episode_delay |-> DefaultMinEpisodeDelay,
     max_episode_delay |-> DefaultMaxEpisodeDelay]

RequestDelays ==
    {DefaultDelays,
     [episode_delay |-> 30 * Unit, adaptive_delays |-> FALSE,
      min_episode_delay |-> 5 * Unit, max_episode_delay |-> 2 * Unit]}

DirectoryRequest(p, f, t) ==
    [directory_path |-> p, force_reingest |-> f, episode_types_filter |-> {},
     episode_delay |-> t.episode_delay, adaptive_delays |-> t.adaptive_delays,
     min_episode_delay |-> t.min_episode_delay,
     max_episode_delay |-> t.max_episode_delay]

\* requests for an existing directory with either delays, and one for a
\* path that does not exist; force_reingest has its default
IngestDirectoryRequests ==
    {DirectoryRequest("directory", FALSE, t) : t \in RequestDelays}
    \cup {DirectoryRequest("missing", FALSE, t) : t \in {DefaultDelays}}

\* the coroutine object ingest_directory builds: it holds the request
NewCoroutine(request) == [request |-> request, result |-> NoResult]

\* POST /ingest/directory: the handler, and the coroutine of the task it creates
post_ingest_directory(request, uuid_hex) ==
    /\ ingest_directory(request.directory_path, uuid_hex)
    /\ bg_coroutines' =
          IF PathCheck(request.directory_path) = 0 /\ ~HasTask(OperationId(uuid_hex))
          THEN Put(bg_coroutines, OperationId(uuid_hex), NewCoroutine(request))
          ELSE bg_coroutines
    /\ UNCHANGED <<batch_vars, monitor_vars, ingest_vars, call_vars, worker_vars>>

\* the result the last process_export_directory call returned
LastDirectoryResult(log) == log[Len(log)].result

\* the coroutine runs up to its first suspension: it registers the operation
\* and calls process_export_directory with four arguments of the request;
\* a call that returns before add_episodes_batch lets it finish at once
background_directory_ingestion_starts(task_id) ==
    /\ HasTask(task_id)
    /\ task_id \in DOMAIN bg_coroutines
    /\ bg_tasks[task_id].task = "created"
    /\ process_export_directory_begin(
          bg_coroutines[task_id].request.force_reingest,
          bg_coroutines[task_id].request.episode_types_filter)
    /\ IF d_pc' = "idle"
       THEN /\ bg_tasks' = [bg_tasks EXCEPT ![task_id].task = "returned"]
            /\ current_operations' =
                  Put(current_operations, task_id,
                      [progress |-> 100, started_at |-> now])
            /\ bg_coroutines' =
                  [bg_coroutines EXCEPT ![task_id].result = LastDirectoryResult(d_log')]
       ELSE /\ bg_tasks' = [bg_tasks EXCEPT ![task_id].task = "started"]
            /\ current_operations' =
                  Put(current_operations, task_id,
                      [progress |-> 0, started_at |-> now])
            /\ UNCHANGED bg_coroutines
    /\ UNCHANGED <<now, create_result, cleanup_result, response, lifespan_vars>>
    /\ UNCHANGED <<monitor_vars, api_vars, call_vars, worker_vars>>

\* add_episodes_batch has returned: process_export_directory returns its
\* result, the coroutine sets the progress and returns the result
background_directory_ingestion_returns(task_id) ==
    /\ TaskReturns(task_id)
    /\ process_export_directory_return
    /\ bg_coroutines' =
          [bg_coroutines EXCEPT ![task_id].result = LastDirectoryResult(d_log')]
    /\ UNCHANGED <<monitor_vars, api_vars, call_vars, worker_vars>>

\* the directory run of a coroutine that an exception leaves: nothing is
\* tracked and no result exists
process_export_directory_left ==
    /\ d_pc = "batch"
    /\ d_pc' = "idle"
    /\ d_episodes' = <<>>
    /\ d_load_errors' = <<>>
    /\ d_files' = <<>>
    /\ b_pc' = "idle"
    /\ episodes' = <<>>
    /\ sorted_episodes' = <<>>
    /\ i' = 0
    /\ results' = <<>>
    /\ successful' = 0
    /\ failed' = 0
    /\ current_delay' = DefaultEpisodeDelay
    /\ rate_limit_count' = 0
    /\ batch_result' = NoResult
    /\ submitted' = <<>>
    /\ sleeps' = <<>>
    /\ UNCHANGED <<episode_delay, adaptive_delays, min_episode_delay,
                   max_episode_delay, inflight, graphiti>>
    /\ UNCHANGED <<processed_episodes, d_log, d_args, export_dir, s_pc, s_args,
                   s_result, s_client>>

\* the except branch: the awaited call raises while the coroutine is
\* suspended in it, and the coroutine raises the exception again
background_directory_ingestion_raises(task_id) ==
    /\ TaskRaises(task_id)
    /\ b_pc \in {"sleeping", "awaiting"}
    /\ process_export_directory_left
    /\ UNCHANGED <<monitor_vars, api_vars, call_vars, worker_vars, coroutine_vars>>

(* Specification BackgroundSpec: directory ingestions started through
   POST /ingest/directory, one run of the IngestionService at a time *)

BackgroundSpecInit ==
    /\ BatchInit
    /\ MonitorInit
    /\ IngestInit_any
    /\ ServiceInit
    /\ ApiInit
    /\ CallInit
    /\ WorkerInit
    /\ CoroutineInit

\* two values of uuid.uuid4().hex that differ in their first eight digits
RequestUuids == {u \in Uuid4Hex : u[UuidHexLen] # "0"}

OperationIds == {OperationId(uuid_hex) : uuid_hex \in RequestUuids}

BackgroundBatchStep ==
    /\ \/ SubmitEpisode
       \/ GetGraphitiRaises
       \/ \E o \in EngineOutcomes : EngineReturns(o)
       \/ SleepReturns
    /\ UNCHANGED <<ingest_vars, service_vars, coroutine_vars>>

BackgroundNext ==
    \/ /\ \E outcome \in StartupOutcomes : lifespan_startup(outcome)
       /\ UNCHANGED <<batch_vars, monitor_vars, ingest_vars, api_vars, call_vars,
                      worker_vars, coroutine_vars>>
    \/ \E request \in IngestDirectoryRequests, uuid_hex \in RequestUuids :
           post_ingest_directory(request, uuid_hex)
    \/ \E task_id \in OperationIds : background_directory_ingestion_starts(task_id)
    \/ /\ BackgroundBatchStep
       /\ UNCHANGED <<monitor_vars, api_vars, call_vars, worker_vars>>
    \/ \E task_id \in OperationIds : background_directory_ingestion_returns(task_id)
    \/ \E task_id \in OperationIds : background_directory_ingestion_raises(task_id)
    \/ /\ \E task_id \in OperationIds : _task_completed(task_id)
       /\ UNCHANGED <<batch_vars, monitor_vars, ingest_vars, api_vars, call_vars,
                      worker_vars, coroutine_vars>>

BackgroundSpec == BackgroundSpecInit /\ [][BackgroundNext]_vars

-----------------------------------------------------------------------------
(* IngestionService._load_manifest *)

Absent == [present |-> FALSE]

GeneLists == {<< >>, <<"SNCA", "LRRK2">>}

EpisodeCounts == {0, 2}

\* the "export_info" object of a manifest
ExportInfoSections ==
    {Absent} \cup
    {[present |-> TRUE, dagster_asset |-> "graphiti_export", timestamp |-> t] :
        t \in {"20250701_123456", "20250802_000000"}}

\* the "episode_summary" object
EpisodeSummarySections ==
    {Absent} \cup
    {[present |-> TRUE, total_episodes |-> n, genes_included |-> g] :
        n \in EpisodeCounts, g \in GeneLists}

\* the top-level keys export_id, export_timestamp, dagster_run_id,
\* total_episodes, episode_types, genes, checksum
FlatKeys ==
    {Absent} \cup
    {[present |-> TRUE, export_id |-> <<"test_export_20250701_123456">>,
      total_episodes |-> n, genes |-> g] :
        n \in EpisodeCounts, g \in GeneLists}

\* a parsed manifest.json; other_sections: ingestion_instructions, validation
\* and next_steps are there and well-formed
ManifestData ==
    [export_info : ExportInfoSections,
     episode_summary : EpisodeSummarySections,
     other_sections : BOOLEAN,
     flat : FlatKeys]

ManifestFiles ==
    {[kind |-> "missing"], [kind |-> "not_json"]} \cup
    {[kind |-> "json", data |-> d] : d \in ManifestData}

\* ExportManifest.model_validate: the five fields are required; keys the model
\* does not declare are ignored
model_validate_ok(data) ==
    data.export_info.present /\ data.episode_summary.present /\ data.other_sections

\* the properties export_id, total_episodes and genes of ExportManifest;
\* export_id is f"{dagster_asset}_{timestamp}"
ExportManifest(data) ==
    [raised |-> "none",
     export_id |-> <<data.export_info.dagster_asset, "_", data.export_info.timestamp>>,
     total_episodes |-> data.episode_summary.total_episodes,
     genes |-> data.episode_summary.genes_included]

ManifestValidationError(message) ==
    [raised |-> "ManifestValidationError", message |-> message]

_load_manifest(file) ==
    IF file.kind = "missing"
    THEN ManifestValidationError("Manifest file not found")
    ELSE IF file.kind = "not_json"
    THEN ManifestValidationError("Invalid JSON in manifest")
    ELSE IF ~model_validate_ok(file.data)
    THEN ManifestValidationError("Failed to parse manifest")
    ELSE ExportManifest(file.data)

load_manifest_call(file) ==
    /\ ~manifest_call.called
    /\ manifest_call' = [called |-> TRUE, file |-> file, result |-> _load_manifest(file)]
    /\ UNCHANGED validate_call

-----------------------------------------------------------------------------
(* GraphitiClient._validate_episode on the fields of an episode *)

BodyLimit == 100000

\* characters of an episode name: a letter, a letter outside ASCII, a digit,
\* the underscore, the hyphen, a blank
NameChars == {"a", "e_acute", "7", "_", "-", " "}

\* the characters str.isalnum() accepts
AlnumChars == {"a", "e_acute", "7"}

RECURSIVE SeqsUpTo(_, _)
SeqsUpTo(S, n) ==
    IF n = 0 THEN {<< >>}
    ELSE LET shorter == SeqsUpTo(S, n - 1)
         IN  shorter \cup {Append(q, c) : q \in {r \in shorter : Len(r) = n - 1}, c \in S}

\* an episode as the validation reads it: the name as its characters, the body
\* as its length, the source
ValidatedEpisodes ==
    [episode_name : SeqsUpTo(NameChars, MaxNameLen),
     body_len : {0, 1, BodyLimit, BodyLimit + 1},
     source : {"", "dagster_pipeline"}]

\* str.replace(c, ""): the string without its occurrences of c
Replace(str, c) == SelectSeq(str, LAMBDA x : x # c)

\* str.isalnum(): at least one character, and every character alphanumeric
isalnum(str) == str # << >> /\ \A k \in DOMAIN str : str[k] \in AlnumChars

\* the list errors of _validate_episode; the episode is rejected
\* (GraphitiValidationError) when it is not empty
_validate_episode_errors(episode) ==
    (IF episode.episode_name = << >> THEN {"episode_name is required"} ELSE {})
    \cup (IF episode.body_len = 0 THEN {"episode_body is required"} ELSE {})
    \cup (IF episode.source = "" THEN {"source is required"} ELSE {})
    \cup (IF episode.body_len > BodyLimit THEN {"episode_body too large"} ELSE {})
    \cup (IF ~isalnum(Replace(Replace(episode.episode_name, "_"), "-"))
          THEN {"episode_name should contain only alphanumeric characters, hyphens, and underscores"}
          ELSE {})

validate_episode_call(episode) ==
    /\ ~validate_call.called
    /\ validate_call' = [called |-> TRUE, episode |-> episode,
                         errors |-> _validate_episode_errors(episode)]
    /\ UNCHANGED manifest_call

-----------------------------------------------------------------------------
(* Specification CallSpec: one call of _load_manifest on any manifest file
   and one call of _validate_episode on any episode of the input sets *)

CallNext ==
    /\ \/ \E file \in ManifestFiles : load_manifest_call(file)
       \/ \E episode \in ValidatedEpisodes : validate_episode_call(episode)
    /\ UNCHANGED <<batch_vars, monitor_vars, ingest_vars, service_vars, api_vars,
                   worker_vars, coroutine_vars>>

CallSpec == Init /\ [][CallNext]_vars

-----------------------------------------------------------------------------
(* Properties of add_episodes_batch *)

\* the priority order of the documentation, written out
DocumentedPriority(episode_type) ==
    CASE episode_type = "gene_profile" -> 1
      [] episode_type = "gwas_evidence" -> 2
      [] episode_type = "eqtl_evidence" -> 3
      [] episode_type = "literature_evidence" -> 4
      [] episode_type = "pathway_evidence" -> 5
      [] episode_type = "integration" -> 6
      [] OTHER -> 7

\* the position of an episode in the input list
InputPosition(episode) ==
    CHOOSE k \in 1..Len(episodes) : episodes[k].episode_name = episode.episode_name

\* the rate-limit events among a list of episode results
RateLimitEvents(res) ==
    {k \in 1..Len(res) :
        res[k].status = "failed" /\ IsRateLimitText(res[k].error_message)}

\* this step recorded the result of one more episode
RecordsResult == Len(results') = Len(results) + 1

\* the position of an episode in the sorted list
SortedPosition(episode) ==
    CHOOSE k \in 1..Len(sorted_episodes) : sorted_episodes[k] = episode

\* the results of the episodes for which no engine instance could be created
WithoutInstance(res) ==
    {k \in 1..Len(res) : res[k].error_message = UnboundLocalText}

\* C1: the episodes are handed to the engine one at a time (never two
\* submissions in flight), in non-decreasing documented priority, episodes of
\* equal priority in input order, each at most once and in the order of the
\* sorted list, and by the time the call returns every episode but those for
\* which no engine instance could be created; _get_episode_processing_order
\* yields the same order.
C1_SequentialPriorityOrder ==
    /\ inflight <= 1
    /\ \A j, k \in 1..Len(submitted) :
          j < k =>
            /\ DocumentedPriority(submitted[j].episode_type)
                  <= DocumentedPriority(submitted[k].episode_type)
            /\ DocumentedPriority(submitted[j].episode_type)
                  = DocumentedPriority(submitted[k].episode_type)
               => InputPosition(submitted[j]) < InputPosition(submitted[k])
    /\ b_pc # "idle" =>
          /\ sorted_episodes = _get_episode_processing_order(episodes)
          /\ \A j, k \in 1..Len(submitted) :
                j < k => SortedPosition(submitted[j]) < SortedPosition(submitted[k])
    /\ b_pc = "returned" =>
          Len(submitted) + Cardinality(WithoutInstance(results)) = Len(episodes)

C1_Witness ==
    /\ b_pc = "returned"
    /\ Len(episodes) = 3
    /\ episodes[1].episode_type = "custom_note"
    /\ episodes[2].episode_type = "integration"
    /\ episodes[3].episode_type = "gene_profile"
    /\ submitted = <<episodes[3], episodes[2], episodes[1]>>
    /\ results[1].status = "failed"

\* C7 as stated: with adaptive delays enabled the current delay never exceeds
\* max_episode_delay.
C7_DelayNeverAboveMax ==
    (b_pc # "idle" /\ adaptive_delays) => current_delay <= max_episode_delay

\* the delays 2.5, 3.75, 5.625, 8.4375, 10.0, 10.0, ... after k rate-limited
\* failures in a row from the defaults
DefaultDelayAfter(k) ==
    IF k = 0 THEN DefaultEpisodeDelay
    ELSE IF k = 1 THEN 3750000
    ELSE IF k = 2 THEN 5625000
    ELSE IF k = 3 THEN 8437500
    ELSE DefaultMaxEpisodeDelay

\* C7 amended: with adaptive delays enabled the current delay never exceeds the
\* largest of episode_delay, min_episode_delay and max_episode_delay (so never
\* max_episode_delay when the batch starts at or below it and the minimum is
\* at or below it); each rate-limited failure met while the delay is below the
\* maximum sets it to min(max, 1.5 x delay); from 2.5 with maximum 10.0 the
\* delay goes 2.5, 3.75, 5.625, 8.4375, 10.0 and stays.
C7_DelayBoundedByStartOrMax ==
    /\ [](b_pc # "idle" /\ adaptive_delays
            => /\ current_delay <= Max(episode_delay,
                                       Max(min_episode_delay, max_episode_delay))
               /\ (/\ episode_delay <= max_episode_delay
                   /\ min_episode_delay <= max_episode_delay)
                    => current_delay <= max_episode_delay
               /\ (/\ episode_delay = DefaultEpisodeDelay
                   /\ max_episode_delay = DefaultMaxEpisodeDelay
                   /\ Cardinality(RateLimitEvents(results)) = Len(results))
                    => current_delay = DefaultDelayAfter(Len(results)))
    /\ [][(/\ RecordsResult
           /\ adaptive_delays
           /\ Len(results') \in RateLimitEvents(results')
           /\ current_delay < max_episode_delay)
            => current_delay' = Min(max_episode_delay, (3 * current_delay) \div 2)]_vars

C7_Witness ==
    /\ b_pc = "returned"
    /\ adaptive_delays
    /\ episode_delay = DefaultEpisodeDelay
    /\ max_episode_delay = DefaultMaxEpisodeDelay
    /\ Len(results) = 5
    /\ Cardinality(RateLimitEvents(results)) = 5
    /\ current_delay = DefaultMaxEpisodeDelay

\* C8: a success recorded while the rate-limit counter is nonzero (one or more
\* rate-limited failures since the last success) resets the counter to zero
\* and, with adaptive delays enabled, sets the delay to max(min, 0.8 x delay).
C8_SuccessAfterRateLimit ==
    [][(/\ RecordsResult
        /\ results'[Len(results')].status = "success"
        /\ rate_limit_count > 0)
         => /\ rate_limit_count' = 0
            /\ adaptive_delays
                 => current_delay' = Max(min_episode_delay, (4 * current_delay) \div 5)]_vars

C8_Witness ==
    /\ Len(results) = 2
    /\ 1 \in RateLimitEvents(results)
    /\ results[2].status = "success"
    /\ adaptive_delays
    /\ episode_delay = DefaultEpisodeDelay
    /\ min_episode_delay = DefaultMinEpisodeDelay
    /\ max_episode_delay = DefaultMaxEpisodeDelay
    /\ rate_limit_count = 0
    /\ current_delay = 3 * Unit

\* C9 as stated: a returned batch of n >= 1 episodes has slept n - 1 times, and
\* every sleep lies inside [min_episode_delay, max_episode_delay].
C9_SleepsInsideRange ==
    /\ (b_pc = "returned" /\ Len(episodes) >= 1) => Len(sleeps) = Len(episodes) - 1
    /\ \A k \in 1..Len(sleeps) :
          sleeps[k] >= min_episode_delay /\ sleeps[k] <= max_episode_delay

\* C10 as stated: rate_limit_events of the returned stats is the number of
\* rate-limit events of the whole batch.
C10_StatsCountAllRateLimitEvents ==
    b_pc = "returned" =>
        batch_result.rate_limiting_stats.rate_limit_events
            = Cardinality(RateLimitEvents(batch_result.episode_results))

-----------------------------------------------------------------------------
(* File monitor: properties *)

\* a step in which a worker takes an export off the queue and calls
\* process_export_directory on it
IsDequeue == Len(processing_queue') < Len(processing_queue)

\* C2: between two calls of clear_processing_history no export id is processed
\* more than once: whenever a worker takes an export off the queue and calls
\* process_export_directory, the export id is not yet in the processed set
\* (which holds the ids handed to process_export_directory since the last
\* clear).
C2_ExportIdProcessedAtMostOnce ==
    [][IsDequeue => Head(processing_queue).export_id \notin processed_exports]_vars

\* C3: after pause_monitoring the workers stay intact, so that the exports on
\* the queue are taken and processed while the monitor is paused: as long as the
\* status is paused, every worker task of the monitor is alive.
C3_PausedWorkersStayAlive ==
    status = "paused" => (processor_tasks # {} /\ \A t \in processor_tasks : Alive(t))

\* the status changes the documented transition list names
DocumentedTransitions ==
    {<<"stopped", "starting">>, <<"starting", "running">>, <<"running", "stopped">>,
     <<"running", "paused">>, <<"paused", "running">>}

\* C4 as stated: the status changes only along the five documented transitions,
\* or into error by a transition attempt that failed.
C4_DocumentedTransitionsOnly ==
    [][status' # status =>
          \/ <<status, status'>> \in DocumentedTransitions
          \/ status' = "error" /\ m_result' = "error"]_vars

\* the status changes the four lifecycle calls make
LifecycleTransitions ==
    DocumentedTransitions \cup
    {<<"paused", "starting">>, <<"error", "starting">>, <<"paused", "stopped">>,
     <<"error", "stopped">>, <<"starting", "error">>}

\* C4 amended: the status changes only along the five documented transitions,
\* along paused->starting and error->starting (start is refused only in status
\* running), along paused->stopped and error->stopped (stop is refused only in
\* status stopped), and along starting->error, made by a start that failed and
\* reports error; a failed stop, pause or resume leaves the status it had set.
C4_LifecycleTransitionsOnly ==
    [][status' # status =>
          /\ <<status, status'>> \in LifecycleTransitions
          /\ status' = "error" => m_call' = "start" /\ m_result' = "error"]_vars

\* a stop_monitoring made in status paused or error has set the status to
\* stopped (its observer was never started, so the call reports error)
C4_Witness ==
    status = "stopped" /\ m_call = "stop" /\ m_result = "error"

\* what a rejected lifecycle call leaves alone
RejectedWith(result) ==
    /\ m_result' = result
    /\ UNCHANGED <<status, observer, tasks, processing_queue, processed_exports>>

\* C5: start_monitoring in status running returns already_running,
\* stop_monitoring in status stopped returns already_stopped, pause_monitoring
\* in a status other than running returns not_running, resume_monitoring in a
\* status other than paused returns not_paused; each returns a result (nothing
\* is raised) and leaves the status, the observer, the worker tasks, the queue
\* and the processed set unchanged.
C5_RejectedCallsChangeNothing ==
    [][/\ (start_monitoring_enter /\ status = "running")
            => (m_call' = "start" /\ RejectedWith("already_running"))
       /\ (stop_monitoring_enter /\ status = "stopped")
            => (m_call' = "stop" /\ RejectedWith("already_stopped"))
       /\ (pause_monitoring /\ status # "running")
            => (m_call' = "pause" /\ RejectedWith("not_running"))
       /\ (Resume /\ status # "paused")
            => (m_call' = "resume" /\ RejectedWith("not_paused"))]_vars

\* pause_monitoring has been rejected on a paused monitor whose workers and
\* queue are still there
C5_Witness ==
    /\ m_call = "pause"
    /\ m_result = "not_running"
    /\ status = "paused"
    /\ processor_tasks # {}
    /\ processing_queue # <<>>

\* C6: once a stop_monitoring called in a status other than stopped has
\* returned, the status is stopped, the observer is released, the worker list
\* and the handler are cleared and no worker task is left alive (so none can
\* start processing an export afterwards).
C6_StopLeavesNothingRunning ==
    (m_call = "stop" /\ m_pc = "none" /\ m_result # "already_stopped") =>
        /\ status = "stopped"
        /\ observer = "none"
        /\ processor_tasks = {}
        /\ ~handler
        /\ AliveTasks = {}


-----------------------------------------------------------------------------
(* IngestionService: properties *)

\* every episode of the export directory, in processing order
AllEpisodes ==
    _get_episode_processing_order(
        [k \in 1..Len(export_dir.files) |-> _load_episode_from_file(export_dir.files[k])])

\* a returned run that loaded every file of the directory and whose batch
\* succeeded
IngestedSuccessfully(entry) ==
    /\ entry.kind = "run"
    /\ entry.client_called
    /\ entry.result.status = "success"
    /\ entry.result.load_errors = <<>>
    /\ entry.result.total_episodes_loaded = Len(export_dir.files)

NoClearBetween(k, j) == \A m \in (k + 1)..(j - 1) : d_log[m].kind # "clear"

\* a later run on the directory after a successful one, the history not
\* cleared in between
RerunPairs ==
    {p \in (DOMAIN d_log) \X (DOMAIN d_log) :
        /\ p[1] < p[2]
        /\ IngestedSuccessfully(d_log[p[1]])
        /\ d_log[p[2]].kind = "run"
        /\ NoClearBetween(p[1], p[2])}

\* C11: after a successful run on a directory, a run with force_reingest
\* false returns status success, the already-processed message and
\* total_episodes_loaded = 0 without calling the client, and a run with
\* force_reingest true (and no type filter) hands every episode of the
\* directory to the client again.
C11_RerunSkipsOrResubmitsAll ==
    \A p \in RerunPairs :
        LET entry == d_log[p[2]]
        IN  IF ~entry.force_reingest
            THEN /\ entry.result.status = "success"
                 /\ "message" \in DOMAIN entry.result
                 /\ entry.result.message = "All episodes already processed"
                 /\ ~entry.client_called
                 /\ "total_episodes_loaded" \in DOMAIN entry.result
                 /\ entry.result.total_episodes_loaded = 0
            ELSE entry.episode_types_filter = {} =>
                    /\ entry.client_called
                    /\ entry.batch_episodes = AllEpisodes


\* the export directory cannot be read: no manifest, a manifest that does not
\* parse, a listing that raises, or no episode file
Unreadable ==
    \/ export_dir.manifest # "ok"
    \/ export_dir.listing # "ok"
    \/ export_dir.files = <<>>

\* the names of the files that load
LoadableNames ==
    {export_dir.files[k].episode_name :
        k \in {j \in DOMAIN export_dir.files : export_dir.files[j].loadable}}

NamesOf(eps) == {eps[k].episode_name : k \in DOMAIN eps}

\* C12: every call of process_export_directory returns a result: status
\* failed with an error text when the manifest is missing or unparsable,
\* when the listing raises and when there is no episode file; each file
\* that fails to load is in load_errors, and (forced, unfiltered run) the
\* episodes of all other files are handed to the client, each getting a
\* result.
C12_FailuresBecomeResults ==
    \A k \in DOMAIN d_log :
        d_log[k].kind = "run" =>
            LET entry == d_log[k]
                result == entry.result
            IN  /\ result.status \in {"success", "failed"}
                /\ Unreadable =>
                       /\ result.status = "failed"
                       /\ "error" \in DOMAIN result
                       /\ ~entry.client_called
                /\ entry.client_called =>
                       result.load_errors = LoadErrors(export_dir.files)
                /\ (~Unreadable /\ entry.force_reingest
                        /\ entry.episode_types_filter = {}) =>
                       /\ entry.client_called
                       /\ NamesOf(entry.batch_episodes) = LoadableNames
                       /\ result.total_episodes_loaded = Cardinality(LoadableNames)
                       /\ NamesOf(result.ingestion_results.episode_results)
                              = LoadableNames

\* a forced run on a directory whose first file fails to load and whose
\* second file loads: one load error, one episode handed to the client
C12_Witness ==
    \E k \in DOMAIN d_log :
        /\ d_log[k].kind = "run"
        /\ d_log[k].force_reingest
        /\ Len(export_dir.files) = 2
        /\ ~export_dir.files[1].loadable
        /\ export_dir.files[2].loadable
        /\ d_log[k].result.load_errors = <<"ep1">>
        /\ Len(d_log[k].batch_episodes) = 1
        /\ d_log[k].batch_episodes[1].episode_name = "ep2"


\* C13: process_single_episode on a processed name without force_reingest
\* returns success and does not call the client; otherwise it calls the
\* client once, adds the name to the processed set exactly when the client
\* reports success, and turns a failed result or an exception of the client
\* into a failed result with the processed set unchanged.
C13_SingleEpisodeTracksSuccessOnly ==
    [][/\ \A e \in SingleEpisodes, f \in BOOLEAN, c \in BOOLEAN :
            process_single_episode_begin(e, f, c) =>
                IF ~f /\ e.episode_name \in processed_episodes
                THEN /\ s_pc' = "idle"
                     /\ s_result'.status = "success"
                     /\ ~s_client'.called
                     /\ processed_episodes' = processed_episodes
                ELSE /\ processed_episodes' = processed_episodes
                     /\ s_pc' = "idle" =>
                            /\ s_client'.called
                            /\ s_client'.calls = 1
                            /\ s_client'.raised
                            /\ s_result'.status = "failed"
       /\ \A o \in EngineOutcomes :
            process_single_episode_return(o) =>
                /\ s_client'.called
                /\ s_client'.calls = 1
                /\ IF o.ok
                   THEN /\ s_result'.status = "success"
                        /\ processed_episodes' =
                               processed_episodes \cup {s_args.episode.episode_name}
                   ELSE /\ s_result'.status = "failed"
                        /\ processed_episodes' = processed_episodes]_vars

\* the client was called, returned a failed result, and the name is not in
\* the processed set
C13_Witness ==
    /\ s_pc = "idle"
    /\ s_client.called
    /\ ~s_client.raised
    /\ s_result.status = "failed"
    /\ s_args.episode.episode_name \notin processed_episodes


\* the batch part of C14: an invalid episode gets a failed result, and the
\* finished batch holds one result per episode, in order
InvalidEpisodeIsRecorded ==
    /\ \A k \in DOMAIN results :
          /\ results[k].episode_name = sorted_episodes[k].episode_name
          /\ ~_validate_episode(sorted_episodes[k]) => results[k].status = "failed"
    /\ b_pc = "returned" => Len(results) = Len(sorted_episodes)

\* C14: add_episode raises only when the episode fails validation, and
\* returns a dict of status failed for a timeout and every other failure;
\* inside add_episodes_batch an invalid episode is recorded as a failed
\* result and the later episodes are still handed to add_episode.
C14_AddEpisodeRaisesOnlyForValidation ==
    /\ (s_client.called /\ s_client.raised) => ~_validate_episode(s_args.episode)
    /\ (s_client.called /\ ~s_client.raised) =>
           s_client.result.status \in {"success", "failed"}
    /\ InvalidEpisodeIsRecorded


-----------------------------------------------------------------------------
(* BackgroundTaskManager and lifespan: properties *)

\* C15: create_task with an id that is present raises and changes no entry;
\* no create_task call changes an entry that is already there.
C15_DuplicateIdRejected ==
    [][\A task_id \in TaskIds :
          create_task(task_id) =>
              /\ HasTask(task_id) =>
                     /\ create_result' = "ValueError"
                     /\ bg_tasks' = bg_tasks
              /\ \A other \in DOMAIN bg_tasks : bg_tasks'[other] = bg_tasks[other]]_vars

\* a create_task call was rejected while an entry is completed and another
\* task has finished without its completion having been handled
C15_Witness ==
    /\ create_result = "ValueError"
    /\ \E task_id \in DOMAIN bg_tasks : bg_tasks[task_id].status = "completed"
    /\ \E task_id \in DOMAIN bg_tasks :
          bg_tasks[task_id].task = "raised" /\ ~bg_tasks[task_id].notified


\* C16: an entry is running while its task has not finished; it is completed
\* with the return value when the task returned, failed with the exception
\* text when it raised; and once the task has finished by return, exception
\* or cancellation and its completion has been handled, the entry is no
\* longer running.
C16_FinishedTasksLeaveRunning ==
    \A task_id \in DOMAIN bg_tasks :
        LET entry == bg_tasks[task_id]
        IN  /\ entry.task \in {"created", "started"} => entry.status = "running"
            /\ entry.status = "completed" =>
                   entry.task = "returned" /\ entry.result = "return value"
            /\ entry.status = "failed" =>
                   entry.task = "raised" /\ entry.error = "exception text"
            /\ (entry.task \in {"returned", "raised", "cancelled"} /\ entry.notified) =>
                   entry.status # "running"

\* the ids of the entries that are completed or failed and older than the
\* current time minus max_age_hours hours
OlderThan(max_age_hours) ==
    {task_id \in DOMAIN bg_tasks :
        /\ bg_tasks[task_id].status \in {"completed", "failed"}
        /\ bg_tasks[task_id].completed_at < now - max_age_hours * TicksPerHour}

\* C17: cleanup_completed_tasks(max_age_hours) removes exactly the completed
\* and failed entries older than the cutoff and leaves every other entry
\* unchanged.
C17_CleanupRemovesExactlyOld ==
    [][\A h \in MaxAgeHoursInputs :
          cleanup_completed_tasks(h) =>
              /\ DOMAIN bg_tasks' = DOMAIN bg_tasks \ OlderThan(h)
              /\ \A task_id \in DOMAIN bg_tasks' :
                    bg_tasks'[task_id] = bg_tasks[task_id]]_vars

\* C18: at every time of day and for every max_age_hours, the default 24
\* included, cleanup_completed_tasks completes without an error and
\* DELETE /operations/cleanup answers 200.
C18_CleanupCompletesWithoutError ==
    /\ cleanup_result # "ValueError"
    /\ response # 500

StepsOf(attempts) == [k \in DOMAIN attempts |-> attempts[k].step]

\* C19 as documented: whenever the lifespan has ended, after serving and
\* after an aborted startup alike, the three shutdown steps have been
\* attempted in order.
C19_AllStepsAlwaysAttempted ==
    l_pc = "done" =>
        StepsOf(l_attempts) = <<"stop_monitoring", "close", "cleanup_completed_tasks">>

\* C19: when the lifespan has ended, the steps attempted are, in this order,
\* stop_monitoring if the file monitor was registered, close if the client
\* was registered, and cleanup_completed_tasks, whichever of them failed;
\* after serving that is all three, after an aborted startup the cleanup
\* alone.
C19_RegisteredStepsAttemptedInOrder ==
    l_pc = "done" =>
        /\ StepsOf(l_attempts) =
              (IF "file_monitor" \in services THEN <<"stop_monitoring">> ELSE <<>>)
              \o (IF "graphiti_client" \in services THEN <<"close">> ELSE <<>>)
              \o <<"cleanup_completed_tasks">>
        /\ l_aborted => StepsOf(l_attempts) = <<"cleanup_completed_tasks">>
        /\ ~l_aborted => Len(l_attempts) = 3

\* the lifespan ended after serving, stop_monitoring and close both failed,
\* and the cleanup was still attempted
C19_Witness ==
    /\ l_pc = "done"
    /\ ~l_aborted
    /\ Len(l_attempts) = 3
    /\ l_attempts[1].failed
    /\ l_attempts[2].failed
    /\ l_attempts[3].step = "cleanup_completed_tasks"

\* C20: after the shutdown sequence no entry remains in the task manager.
C20_NoEntryAfterShutdown ==
    l_pc = "done" => DOMAIN bg_tasks = {}

-----------------------------------------------------------------------------
(* Properties of the lifespan startup and of the HTTP handlers *)

AccessorKeys ==
    {"settings", "graphiti_client", "ingestion_service", "file_monitor", "task_manager"}

ConfigurationValid == validation_results.validated /\ validation_results.valid

FailedStartupSteps == {l_startup[k].step : k \in {n \in DOMAIN l_startup : l_startup[n].failed}}

ConnectionClassErrors == {"GraphitiConnectionError", "ConnectionError"}

\* C29: initialize_database makes at most three attempts; an attempt is
\* followed by another one only when it met a connection-class error; the
\* database is marked initialized only when an attempt succeeded; and when the
\* call ends without success, what the caller gets is a connection error and
\* the flag is false.
C29_BoundedRetryEndsInConnectionError ==
    /\ Len(init_tries) <= MaxInitAttempts
    /\ \A k \in DOMAIN init_tries :
          k < Len(init_tries) => init_tries[k] \in ConnectionClassErrors
    /\ database_initialized => \E k \in DOMAIN init_tries : init_tries[k] = "ok"
    /\ init_outcome \notin {"none", "success"} =>
          /\ init_outcome \in ConnectionClassErrors
          /\ ~database_initialized

\* C22: an accessor called while its service is not registered raises HTTP
\* 503, and called once the service is registered returns the instance
\* registered under its key.
C22_AccessorRaises503OrReturnsInstance ==
    [][\A accessor \in Accessors :
          call_accessor(accessor) =>
              /\ http'.endpoint = accessor
              /\ IF ServiceKey[accessor] \in services
                 THEN http'.code = 0 /\ http'.body.instance = ServiceKey[accessor]
                 ELSE http'.code = 503]_vars

C22_Witness ==
    /\ http.endpoint = "get_file_monitor"
    /\ http.code = 0
    /\ http.body.instance = "file_monitor"
    /\ l_pc = "serving"

C22_WitnessUnregistered ==
    /\ http.endpoint = "get_task_manager"
    /\ http.code = 503
    /\ services = {}

\* C23: GET /health/deep answers 200 for every outcome of the connection
\* test: unhealthy with the three flags false when the test raised; otherwise
\* the flags of the test's result, healthy when graphiti_ready and degraded
\* when not.
C23_DeepHealthAlways200 ==
    [][\A raised, neo4j_up, openai_up \in BOOLEAN :
          deep_health_check(raised, neo4j_up, openai_up) =>
              /\ http'.endpoint = "/health/deep"
              /\ http'.code = 200
              /\ IF raised
                 THEN /\ http'.body.status = "unhealthy"
                      /\ ~http'.body.neo4j_connected
                      /\ ~http'.body.openai_api_accessible
                      /\ ~http'.body.graphiti_ready
                 ELSE /\ http'.body.graphiti_ready
                          = (neo4j_up /\ openai_up /\ database_initialized)
                      /\ http'.body.status
                          = IF http'.body.graphiti_ready THEN "healthy" ELSE "degraded"]_vars

C23_Witness ==
    /\ http.endpoint = "/health/deep"
    /\ http.code = 200
    /\ http.body.status = "unhealthy"

C23_WitnessHealthy ==
    /\ http.endpoint = "/health/deep"
    /\ http.body.status = "healthy"

C23_WitnessDegraded ==
    /\ http.endpoint = "/health/deep"
    /\ http.body.status = "degraded"
    /\ http.body.neo4j_connected
    /\ http.body.openai_api_accessible

\* C24: GET /health/ready answers 200 with status ready exactly when the
\* connection test returned with neo4j_connected and openai_accessible both
\* true; when it returned otherwise the answer is 503 not_ready, and when it
\* raised the answer is 503 error.
C24_ReadyExactlyWhenBothConnected ==
    [][\A raised, neo4j_up, openai_up \in BOOLEAN :
          readiness_probe(raised, neo4j_up, openai_up) =>
              /\ http'.endpoint = "/health/ready"
              /\ (http'.code = 200 /\ http'.body.status = "ready")
                    <=> (~raised /\ neo4j_up /\ openai_up)
              /\ ~raised /\ ~(neo4j_up /\ openai_up) =>
                    http'.code = 503 /\ http'.body.status = "not_ready"
              /\ raised => http'.code = 503 /\ http'.body.status = "error"
              /\ http'.code \in {200, 503}
              /\ http'.code = 200 <=> http'.body.status = "ready"]_vars

C24_Witness ==
    /\ http.endpoint = "/health/ready"
    /\ http.code = 503
    /\ http.body.status = "not_ready"
    /\ http.body.neo4j
    /\ ~http.body.openai

IsOperationId(id) ==
    /\ Len(id) = 1 + OperationIdHexLen
    /\ id[1] = "ingest_"
    /\ \A k \in 2..Len(id) : id[k] \in HexDigits

\* C25: POST /ingest/directory answers 404 for a missing path and 400 for a
\* path that is not a directory, and registers nothing; for a directory it
\* either registers exactly one task, under an id ingest_ + 8 hex digits that
\* no registered task had, and answers processing with that id while the task
\* has not run, or, the registration having failed, answers 500 and registers
\* nothing.
C25_IngestDirectoryRegistersOneTask ==
    [][\A path \in PathKinds, uuid_hex \in Uuid4Hex :
          ingest_directory(path, uuid_hex) =>
              /\ http'.endpoint = "/ingest/directory"
              /\ path = "missing" => http'.code = 404 /\ bg_tasks' = bg_tasks
              /\ path = "file" => http'.code = 400 /\ bg_tasks' = bg_tasks
              /\ path = "directory" =>
                    \/ /\ http'.code = 200
                       /\ http'.body.status = "processing"
                       /\ IsOperationId(http'.body.operation_id)
                       /\ http'.body.operation_id \notin DOMAIN bg_tasks
                       /\ DOMAIN bg_tasks' = DOMAIN bg_tasks \cup {http'.body.operation_id}
                       /\ \A id \in DOMAIN bg_tasks : bg_tasks'[id] = bg_tasks[id]
                       /\ bg_tasks'[http'.body.operation_id].status = "running"
                       /\ bg_tasks'[http'.body.operation_id].task = "created"
                    \/ /\ http'.code = 500
                       /\ bg_tasks' = bg_tasks]_vars

C25_Witness ==
    /\ http.endpoint = "/ingest/directory"
    /\ http.code = 200
    /\ http.body.status = "processing"
    /\ Cardinality(DOMAIN bg_tasks) = 2
    /\ http.body.operation_id \in DOMAIN bg_tasks
    /\ bg_tasks[http.body.operation_id].task = "created"

C25_WitnessCollision ==
    /\ http.endpoint = "/ingest/directory"
    /\ http.code = 500
    /\ Cardinality(DOMAIN bg_tasks) = 1

\* the history after one more ProcessingResult: the new entry comes last and,
\* at the cap, the oldest entry goes
WithOneMore(history, entry) ==
    IF Len(history) < ResultHistoryCap
    THEN Append(history, entry)
    ELSE Append(Tail(history), entry)

\* C26: the result history never holds more than 100 entries; a worker that
\* records a result puts it last and, once the history is full, drops exactly
\* the oldest entry, so that after more than 100 records the history is the
\* 100 most recent ones, whichever worker recorded them; no other step but
\* clear_processing_history changes the history.
C26_HistoryKeepsLast100 ==
    [][/\ Len(processing_results) <= ResultHistoryCap
       /\ Len(processing_results') <= ResultHistoryCap
       /\ \A t \in BagToSet(tasks), outcome \in {"success", "failed"} :
             WorkerFinishes(t, outcome) =>
                 processing_results'
                     = WithOneMore(processing_results,
                                   [export_path |-> t.item.export_path,
                                    status |-> outcome])
       /\ processing_results' # processing_results =>
             \/ processing_results' = <<>>
             \/ \E t \in BagToSet(tasks), outcome \in {"success", "failed"} :
                   WorkerFinishes(t, outcome)]_vars

\* 101 exports recorded: the first of the 99 earlier results is gone, the two
\* new ones are the last two
C26_Witness ==
    /\ Len(processing_results) = ResultHistoryCap
    /\ processing_results[1] = EarlierResults[2]
    /\ processing_results[ResultHistoryCap - 2] = EarlierResults[EarlierExports]
    /\ processing_results[ResultHistoryCap - 1].export_path = "export_a"
    /\ processing_results[ResultHistoryCap - 1].status = "failed"
    /\ processing_results[ResultHistoryCap].export_path = "export_a"
    /\ processing_results[ResultHistoryCap].status = "success"
    /\ \E t \in BagToSet(tasks) : t.st = "busy"

-----------------------------------------------------------------------------
(* Properties of _load_manifest and _validate_episode *)

NestedShape(file) ==
    /\ file.kind = "json"
    /\ file.data.export_info.present
    /\ file.data.episode_summary.present
    /\ file.data.other_sections

FlatShape(file) == file.kind = "json" /\ file.data.flat.present

MatchesNested(manifest, data) ==
    /\ manifest.export_id
          = <<data.export_info.dagster_asset, "_", data.export_info.timestamp>>
    /\ manifest.total_episodes = data.episode_summary.total_episodes
    /\ manifest.genes = data.episode_summary.genes_included

MatchesFlat(manifest, data) ==
    /\ manifest.export_id = data.flat.export_id
    /\ manifest.total_episodes = data.flat.total_episodes
    /\ manifest.genes = data.flat.genes

\* C27: _load_manifest returns a manifest for a file of the nested shape and
\* for a file of the legacy flat shape, with the export id, the total episode
\* count and the gene list of the file, and raises ManifestValidationError
\* only for a missing file, for invalid JSON and for a file of neither shape.
C27_ManifestLoadingAcceptsBothShapes ==
    manifest_call.called =>
        LET file == manifest_call.file
            result == manifest_call.result
        IN  /\ NestedShape(file) \/ FlatShape(file) =>
                  /\ result.raised = "none"
                  /\ \/ NestedShape(file) /\ MatchesNested(result, file.data)
                     \/ FlatShape(file) /\ MatchesFlat(result, file.data)
            /\ result.raised # "none" =>
                  /\ result.raised = "ManifestValidationError"
                  /\ ~NestedShape(file)
                  /\ ~FlatShape(file)

\* what holds of the loader: the nested shape is accepted and read, and every
\* other file, the legacy flat one included, ends in ManifestValidationError
C27_NestedShapeAccepted ==
    manifest_call.called =>
        LET file == manifest_call.file
            result == manifest_call.result
        IN  IF NestedShape(file)
            THEN result.raised = "none" /\ MatchesNested(result, file.data)
            ELSE result.raised = "ManifestValidationError"

AllowedNameChars == {"a", "e_acute", "7", "_", "-"}

\* C28: an episode is rejected exactly when its name, body or source is
\* empty, its body is longer than 100,000 characters, or its name has a
\* character other than letters, digits, underscores and hyphens; every other
\* episode passes.
C28_RejectsExactlyInvalidEpisodes ==
    validate_call.called =>
        LET episode == validate_call.episode
        IN  (validate_call.errors # {})
            <=> \/ episode.episode_name = << >>
                \/ episode.body_len = 0
                \/ episode.source = ""
                \/ episode.body_len > 100000
                \/ \E k \in DOMAIN episode.episode_name :
                      episode.episode_name[k] \notin AllowedNameChars

\* what holds of the validation in one direction: every episode the claim
\* names as invalid is rejected, a body of 100,000 characters passes and one
\* of 100,001 is rejected
C28_InvalidEpisodesRejected ==
    validate_call.called =>
        LET episode == validate_call.episode
        IN  /\ (\/ episode.episode_name = << >>
                \/ episode.body_len = 0
                \/ episode.source = ""
                \/ episode.body_len > 100000
                \/ \E k \in DOMAIN episode.episode_name :
                      episode.episode_name[k] \notin AllowedNameChars)
                  => validate_call.errors # {}
            /\ episode = [episode_name |-> <<"a", "_">>, body_len |-> 100000,
                          source |-> "dagster_pipeline"]
                  => validate_call.errors = {}

-----------------------------------------------------------------------------
(* Concurrent operations on one IngestionService *)

NoHistoryReset == \A k \in DOMAIN d_log : d_log[k].kind # "clear"

\* the last process_single_episode call, made without force_reingest, had the
\* engine accept the episode of this name
SingleSubmittedSuccessfully(name) ==
    /\ s_pc = "idle"
    /\ ~s_args.force_reingest
    /\ s_args.episode.episode_name = name
    /\ s_client.called
    /\ ~s_client.raised
    /\ s_client.result.status = "success"

\* the directory run in progress, made without force_reingest and suspended
\* inside add_episodes_batch (at the inter-episode sleep or at a later
\* submission), had the engine accept an episode of this name
DirectorySubmittedSuccessfully(name) ==
    /\ d_pc = "batch"
    /\ b_pc \in {"sleeping", "iterate", "awaiting"}
    /\ ~d_args.force_reingest
    /\ \E k \in DOMAIN results :
          results[k].episode_name = name /\ results[k].status = "success"

\* C30: with force_reingest false and no history reset, no episode name is
\* successfully submitted to the engine more than once, whatever the
\* interleaving of a single-episode request and a directory run on the same
\* ingestion service.
C30_NameSubmittedAtMostOnce ==
    NoHistoryReset =>
        \A k \in DOMAIN EpisodeNames :
            ~(/\ SingleSubmittedSuccessfully(EpisodeNames[k])
              /\ DirectorySubmittedSuccessfully(EpisodeNames[k]))

-----------------------------------------------------------------------------
(* File monitor: liveness and the worker pool *)

OnQueue(id) == \E k \in DOMAIN processing_queue : processing_queue[k].export_id = id

\* C31: whenever the monitor is in status running and stays there (after the
\* first start, after stop followed by start, after pause followed by resume),
\* every export on the queue is eventually dequeued by a worker, which marks
\* its id processed and processes it.
C31_QueuedExportsEventuallyProcessed ==
    \A id \in ExportIds :
        [](OnQueue(id) => <>(status # "running" \/ id \in processed_exports))

\* the worker routines inside their loop: waiting on the queue or processing
InLoop == {t \in BagToSet(tasks) : t.st \in {"waiting", "busy"}}

Processing == {t \in BagToSet(tasks) : t.st = "busy"}

\* C32: in every reachable state at most 2 worker routines are alive and at
\* most 2 exports are being processed at the same time, for every sequence of
\* start, stop, pause and resume calls, including start_monitoring called from
\* status paused or error.
C32_AtMostTwoWorkers ==
    /\ CountOf(tasks, InLoop) <= ConcurrentProcessors
    /\ CountOf(tasks, Processing) <= ConcurrentProcessors

\* how often an export id is on the queue
QueueCount(q, id) == Cardinality({k \in DOMAIN q : q[k].export_id = id})

\* the cancellation reaches a worker that is processing an export
CancelTakesEffect(t) ==
    t.st = "busy" /\ t.cancel /\ CopiesIn(t, tasks') < CopiesIn(t, tasks)

\* C33: when stop_monitoring cancels a worker that has dequeued an export and
\* marked its id processed, but has recorded no ProcessingResult yet, the id
\* stays in the processed set and no result is recorded for it; an id of the
\* processed set is not enqueued again by a filesystem event or a directory
\* scan, and it leaves the set only by clear_processing_history.
C33_CancelledExportStaysProcessed ==
    [][/\ \A t \in BagToSet(tasks) :
             (CancelTakesEffect(t) /\ t.item.export_id \in processed_exports) =>
                 /\ t.item.export_id \in processed_exports'
                 /\ processing_results' = processing_results
       /\ \A id \in processed_exports :
             /\ QueueCount(processing_queue', id) <= QueueCount(processing_queue, id)
             /\ id \notin processed_exports' => clear_processing_history]_vars

\* stop_monitoring has cancelled a worker that holds a dequeued export whose id
\* is in the processed set, with no result in the history
C33_Witness ==
    /\ m_call = "stop"
    /\ processing_results = <<>>
    /\ \E t \in BagToSet(tasks) :
          /\ t.st = "busy"
          /\ t.cancel
          /\ t.item.export_id \in processed_exports

\* the cancelled worker is gone; the id it had dequeued is still in the
\* processed set, the directory is unchanged, and nothing is on the queue or
\* in the history
C33_WitnessAfterCancel ==
    /\ m_call = "stop"
    /\ m_result = "stopped"
    /\ AliveTasks = {}
    /\ processing_results = <<>>
    /\ processing_queue = <<>>
    /\ \E d \in ExportDirs : dir_valid[d] /\ _get_export_id(d) \in processed_exports

-----------------------------------------------------------------------------
(* IngestionService: the processed-name set and the directory result *)

\* the step in which process_export_directory resumes after add_episodes_batch
DirectoryRunReturns == d_pc = "batch" /\ d_pc' = "idle"

\* the names of the batch's episodes that no entry of its results reports failed
NotReportedFailed ==
    {d_episodes[k].episode_name : k \in
        {j \in DOMAIN d_episodes :
            ~\E r \in DOMAIN batch_result.episode_results :
                /\ batch_result.episode_results[r].episode_name =
                       d_episodes[j].episode_name
                /\ batch_result.episode_results[r].status = "failed"}}

HistoryCleared ==
    Len(d_log') = Len(d_log) + 1 /\ d_log'[Len(d_log')].kind = "clear"

\* C34: when process_export_directory resumes after its batch, the
\* processed-name set gains exactly the names of the batch's episodes that the
\* batch's results do not report as failed; a name in the set is never removed
\* by an ingestion (a forced re-ingestion that fails included) and leaves the
\* set only through clear_processing_history.
C34_ProcessedNamesGrowByUnfailed ==
    [][/\ DirectoryRunReturns =>
             processed_episodes' = processed_episodes \cup NotReportedFailed
       /\ ~(processed_episodes \subseteq processed_episodes') => HistoryCleared]_vars

\* a forced re-ingestion has returned with a failed result for a name that is
\* in the processed set
C34_Witness ==
    /\ d_log # <<>>
    /\ LET last == d_log[Len(d_log)]
       IN  /\ last.kind = "run"
           /\ last.client_called
           /\ last.force_reingest
           /\ \E r \in DOMAIN last.result.ingestion_results.episode_results :
                 /\ last.result.ingestion_results.episode_results[r].status = "failed"
                 /\ last.result.ingestion_results.episode_results[r].episode_name
                        \in processed_episodes

\* every file the listing discovers fails to load
EveryFileFailsToLoad ==
    /\ export_dir.manifest = "ok"
    /\ export_dir.listing = "ok"
    /\ export_dir.files # <<>>
    /\ \A k \in DOMAIN export_dir.files : ~export_dir.files[k].loadable

\* C35: whenever process_export_directory reaches the client, the status of
\* the directory result is the status of the batch result, whatever
\* load_errors holds; when every discovered file failed to load, the client is
\* called with an empty batch, and the directory result carries the status of
\* that batch (success).
C35_DirectoryStatusIsBatchStatus ==
    [][/\ (DirectoryBegin /\ EveryFileFailsToLoad) =>
             /\ d_pc' = "batch"
             /\ episodes' = <<>>
             /\ d_load_errors' # <<>>
             /\ batch_result'.status = "success"
       /\ DirectoryRunReturns =>
             LET last == d_log'[Len(d_log')]
             IN  /\ last.client_called
                 /\ last.result.status = batch_result.status
                 /\ last.result.load_errors = d_load_errors]_vars

\* a run in which every file failed to load has returned: the client was
\* called with an empty batch and the result has status success and load errors
C35_Witness ==
    /\ d_log # <<>>
    /\ LET last == d_log[Len(d_log)]
       IN  /\ last.kind = "run"
           /\ last.client_called
           /\ last.batch_episodes = <<>>
           /\ last.result.load_errors # <<>>
           /\ last.result.status = "success"

-----------------------------------------------------------------------------
(* File monitor: the steps of a worker on one export *)

WorkerSteps ==
    {"marked_processed", "started", "called", "appended", "completed", "failed"}

IsWorkerStep(e) == e \in WorkerSteps

\* the iteration of the worker on the export it took is over in this step
IterationEnds == w_events' # w_events /\ w_pc' # "awaiting"

\* C36: for each export a worker dequeues and handles to the end of its
\* iteration, with the three callbacks registered, the steps are, in this
\* order: the export id is added to the processed set, the started callback
\* fires, process_export_directory is called with validate_files=true and
\* force_reingest=false, the ProcessingResult is appended to the history, and
\* exactly one of the completed callback (status success) and the failed
\* callback (any other status, or an exception) fires; a raising callback does
\* not stop the worker, which returns only when the status is not running.
C36_WorkerStepsInOrder ==
    [][(IterationEnds /\ w_callbacks = Callbacks) =>
          LET steps == SelectSeq(w_events', IsWorkerStep)
          IN  /\ Len(steps) = 5
              /\ SubSeq(steps, 1, 4) =
                     <<"marked_processed", "started", "called", "appended">>
              /\ w_call'.called
              /\ w_call'.validate_files
              /\ ~w_call'.force_reingest
              /\ Len(processing_results') = Len(processing_results) + 1
              /\ steps[5] =
                     IF processing_results'[Len(processing_results')].status = "success"
                     THEN "completed"
                     ELSE "failed"
              /\ w_pc' = "returned" => status # "running"]_vars

-----------------------------------------------------------------------------
(* Background directory ingestion: the task entry, the operation and the
   delays of the batch *)

\* the coroutine of the task has returned a result of status failed
ReturnedFailedResult(task_id) ==
    /\ task_id \in DOMAIN bg_coroutines
    /\ bg_coroutines[task_id].result.status = "failed"

\* C37: a background directory ingestion whose process_export_directory
\* result has status failed has its operation at 100 percent from the moment
\* the coroutine returns and its task entry completed once the completion
\* callback has run; an entry is failed only if the coroutine raised
C37_FailedResultCompletesTask ==
    \A task_id \in DOMAIN bg_tasks :
        /\ ReturnedFailedResult(task_id) =>
              /\ task_id \in DOMAIN current_operations
              /\ current_operations[task_id].progress = 100
              /\ bg_tasks[task_id].status # "failed"
              /\ bg_tasks[task_id].notified => bg_tasks[task_id].status = "completed"
        /\ bg_tasks[task_id].status = "failed" => bg_tasks[task_id].task = "raised"

\* a batch with a failed episode made the directory result failed, and the
\* completion callback has run
C37_Witness ==
    \E task_id \in DOMAIN bg_tasks :
        /\ ReturnedFailedResult(task_id)
        /\ "ingestion_results" \in DOMAIN bg_coroutines[task_id].result
        /\ bg_coroutines[task_id].result.ingestion_results.failed > 0
        /\ bg_tasks[task_id].notified
        /\ bg_tasks[task_id].status = "completed"

\* a coroutine raised and its entry is failed
C37_WitnessRaised ==
    \E task_id \in DOMAIN bg_tasks :
        bg_tasks[task_id].notified /\ bg_tasks[task_id].status = "failed"

\* C38: while the coroutine of a POST /ingest/directory request waits for
\* add_episodes_batch, the episode_delay, adaptive_delays, min_episode_delay
\* and max_episode_delay of that call are the values of the request
C38_RequestDelaysApplied ==
    \A task_id \in DOMAIN bg_tasks :
        bg_tasks[task_id].task = "started" =>
            /\ episode_delay = bg_coroutines[task_id].request.episode_delay
            /\ adaptive_delays = bg_coroutines[task_id].request.adaptive_delays
            /\ min_episode_delay = bg_coroutines[task_id].request.min_episode_delay
            /\ max_episode_delay = bg_coroutines[task_id].request.max_episode_delay

-----------------------------------------------------------------------------
(* add_episodes_batch: when the current delay changes *)

\* the result the step records is a failure whose text is rate-limited
RecordsRateLimitedFailure ==
    /\ RecordsResult
    /\ results'[Len(results')].status = "failed"
    /\ IsRateLimitText(results'[Len(results')].error_message)

\* the result the step records is a success met while the counter is nonzero
RecordsSuccessAfterRateLimit ==
    /\ RecordsResult
    /\ results'[Len(results')].status = "success"
    /\ rate_limit_count > 0

InBatch == b_pc \in {"iterate", "awaiting", "sleeping"}

DelayChangesAsStated ==
    /\ current_delay' > current_delay => adaptive_delays /\ RecordsRateLimitedFailure
    /\ current_delay' < current_delay => adaptive_delays /\ RecordsSuccessAfterRateLimit

DelayChangesWhenAdaptive ==
    /\ current_delay' # current_delay
         => /\ adaptive_delays
            /\ RecordsRateLimitedFailure \/ RecordsSuccessAfterRateLimit
    /\ RecordsRateLimitedFailure => current_delay' >= current_delay
    /\ RecordsSuccessAfterRateLimit
         => /\ current_delay >= min_episode_delay => current_delay' <= current_delay
            /\ (current_delay < min_episode_delay /\ adaptive_delays)
                 => current_delay' = min_episode_delay

C39_WitnessBelowMinimum ==
    /\ adaptive_delays
    /\ Len(results) = 2
    /\ RateLimitEvents(results) = {1}
    /\ results[2].status = "success"
    /\ episode_delay < min_episode_delay
    /\ current_delay = min_episode_delay
    /\ current_delay > TimesOnePointFive(episode_delay)

-----------------------------------------------------------------------------
(* add_episodes_batch: the counts of the result *)

\* the entries of a list of episode results that have the given status
WithStatus(res, st) == {k \in 1..Len(res) : res[k].status = st}

\* C40: the result of every batch, the empty one and those with episodes that
\* raise included, has successful + failed = total_episodes = the number of
\* entries of episode_results = the number of input episodes, counts the
\* success entries and the failed entries, and has status success exactly
\* when failed is 0
C40_BatchCountsAgree ==
    b_pc = "returned" =>
        /\ batch_result.successful + batch_result.failed = batch_result.total_episodes
        /\ batch_result.total_episodes = Len(batch_result.episode_results)
        /\ batch_result.total_episodes = Len(episodes)
        /\ batch_result.successful =
              Cardinality(WithStatus(batch_result.episode_results, "success"))
        /\ batch_result.failed =
              Cardinality(WithStatus(batch_result.episode_results, "failed"))
        /\ batch_result.status \in {"success", "failed"}
        /\ batch_result.status = "success" <=> batch_result.failed = 0

\* a batch with an episode that succeeded, one the engine failed and two that
\* raised: one in the validation of add_episode, one in the progress callback
C40_Witness ==
    /\ b_pc = "returned"
    /\ Len(episodes) >= 4
    /\ batch_result.successful >= 1
    /\ \E k \in 1..Len(results) : results[k].error_message = ValidationText
    /\ \E k \in 1..Len(results) : results[k].error_message = CallbackQuotaText
    /\ \E k \in 1..Len(results) :
           /\ results[k].status = "failed"
           /\ results[k].error_message \notin {ValidationText, CallbackQuotaText}

\* the empty batch has returned
C40_WitnessEmpty ==
    /\ b_pc = "returned"
    /\ episodes = <<>>
    /\ batch_result.status = "success"
    /\ batch_result.total_episodes = 0

====
